---------------------------- MODULE Spec2Model ----------------------------
(* A model of the Hypersonic simulation core: src/hypersonic/model.py      *)
(* (class Game) and the Bomb / Agent entities of src/hypersonic/entities.py *)
(*                                                                        *)
(* One call of Game.update() is the sequence tick_bombs,                  *)
(* propagate_explosions, process_agent_actions and the bookkeeping tail;  *)
(* the variable pc holds the position inside update().                    *)
EXTENDS Integers, Sequences, FiniteSets, TLC

(* ---------------------------------------------------------------------- *)
(* Bounds of the model.  The program plays on a 13 x 11 board for 200      *)
(* turns (Game.WIDTH, Game.HEIGHT, Game.MAX_TURNS); the model keeps the    *)
(* names and checks a smaller board and a shorter game.                    *)
(* ---------------------------------------------------------------------- *)
WIDTH == 4

HEIGHT == 3

MAX_TURNS == 10

\* update() calls the catch-up loop of the main program may make after the end
MaxLate == 1

(* Program constants.                                                      *)
LIFETIME == 8

RANGE == 3

NumAgents == 2

INITIAL_BOMBS == 1

FLOOR == "."

BOX == "0"

IDLE == "idle"

MOVING == "move"

AgentIds == 0 .. (NumAgents - 1)

Cells == (0 .. (WIDTH - 1)) \X (0 .. (HEIGHT - 1))

START_POSITIONS == <<  <<0, 0>>, <<WIDTH - 1, HEIGHT - 1>>,
                       <<WIDTH - 1, 0>>, <<0, HEIGHT - 1>>  >>

\* Clockwise directions, as (dx, dy) pairs
DIRECTIONS == <<  <<0, -1>>, <<1, 0>>, <<0, 1>>, <<-1, 0>>  >>

VARIABLES
    grid,        \* Game.grid: cell -> FLOOR or BOX
    bombs,       \* Game.bombs: the live bomb list
    agents,      \* Game.agents: id -> the agent's fields
    explosions,  \* Game.explosions
    turn,        \* Game.turn
    running,     \* Game.running
    boxes_left,  \* Game.boxes_left
    pc,          \* position inside update()
    exploding,   \* the list tick_bombs returned to update()
    actions,     \* ghost: the dictionary handed to process_agent_actions, where
                 \* a specification records it
    rays,        \* ghost: which bomb's ray scorched which cell in this turn
    late,        \* the number of update() calls made after the game ended
    asp          \* the AspAgent's threads: caller, worker and timer

vars == <<grid, bombs, agents, explosions, turn, running, boxes_left,
          pc, exploding, actions, rays, late, asp>>

(* ---------------------------------------------------------------------- *)
(* Grid                                                                    *)
(* ---------------------------------------------------------------------- *)
in_bounds(x, y) == 0 <= x /\ x < WIDTH /\ 0 <= y /\ y < HEIGHT

count_boxes_left(g) == Cardinality({c \in Cells : g[c] = BOX})

(* ---------------------------------------------------------------------- *)
(* Bombs                                                                   *)
(* ---------------------------------------------------------------------- *)
\* a bomb whose fuse is one turn longer
bomb_long_fuse(owner_id, x, y) ==
    [owner_id |-> owner_id, x |-> x, y |-> y, timer |-> LIFETIME + 1, range |-> RANGE]

\* a bomb that has already lost a turn of its fuse when it is placed
bomb_short_fuse(owner_id, x, y) ==
    [owner_id |-> owner_id, x |-> x, y |-> y, timer |-> LIFETIME - 1, range |-> RANGE]

\* Bomb.__init__
Bomb(owner_id, x, y) ==
    [owner_id |-> owner_id, x |-> x, y |-> y, timer |-> LIFETIME, range |-> RANGE]

\* a Bomb.tick that counts down two at a time
BombTickTwice(b) ==
    [b EXCEPT !.timer = IF b.timer > 1 THEN b.timer - 2 ELSE 0]

\* Bomb.tick: the bomb after the tick; it explodes when its timer is 0
BombTick(b) == [b EXCEPT !.timer = IF b.timer > 0 THEN b.timer - 1 ELSE b.timer]

\* how many bombs of the list agent a owns
OwnedCount(bs, a) == Cardinality({i \in 1 .. Len(bs) : bs[i].owner_id = a})

\* a tick_bombs that gives a bomb back to its owner one turn early as well
tick_bombs_early_refund(bs, ags) ==
    LET ticked == [i \in 1 .. Len(bs) |-> BombTick(bs[i])]
        expl   == SelectSeq(ticked, LAMBDA b : b.timer = 0)
        remain == SelectSeq(ticked, LAMBDA b : ~(b.timer = 0))
        early  == SelectSeq(ticked, LAMBDA b : b.timer <= 1)
    IN  [exploding |-> expl,
         bombs     |-> remain,
         agents    |-> [a \in AgentIds |->
                          [ags[a] EXCEPT !.bombs_left = @ + OwnedCount(early, a)]]]

\* Game.tick_bombs: [exploding, bombs, agents]
tick_bombs(bs, ags) ==
    LET ticked == [i \in 1 .. Len(bs) |-> BombTick(bs[i])]
        expl   == SelectSeq(ticked, LAMBDA b : b.timer = 0)
        remain == SelectSeq(ticked, LAMBDA b : ~(b.timer = 0))
    IN  [exploding |-> expl,
         bombs     |-> remain,
         agents    |-> [a \in AgentIds |->
                          [ags[a] EXCEPT !.bombs_left =
                              @ + OwnedCount(expl, a)]]]

(* ---------------------------------------------------------------------- *)
(* Explosion propagation (Game.propagate_explosions)                       *)
(*                                                                        *)
(* The working state of one pass is a record:                              *)
(*   queue       the deque of bombs still to blast                         *)
(*   scorched    newly_exploded_coordinates                                *)
(*   processed   processed_bomb_coordinates                                *)
(*   box_hit_by  box cell -> set of owner ids ({} where the dict has no    *)
(*               entry)                                                    *)
(*   bombs       Game.bombs, whose timers the pass overwrites              *)
(*   agents      Game.agents, whose bombs_left the pass increments         *)
(*   bomb_found  the flag of the ray step in progress                      *)
(*   rays        ghost: which bomb's ray scorched which cell               *)
(* Bombs are compared by value where Python compares object identity; the  *)
(* two agree as long as no two bombs share owner, cell and timer.          *)
(* ---------------------------------------------------------------------- *)
InSeq(e, s) == \E i \in 1 .. Len(s) : s[i] = e

RECURSIVE trigger_bombs_no_refund(_, _, _, _)
\* a chain reaction that does not give the bomb back to its owner
trigger_bombs_no_refund(ps, nx, ny, k) ==
    IF k > Len(ps.bombs) THEN ps
    ELSE LET other == ps.bombs[k]
         IN  IF other.x = nx /\ other.y = ny
             THEN LET found == [ps EXCEPT !.bomb_found = TRUE]
                      det   == [other EXCEPT !.timer = 0]
                  IN  IF other.timer > 0 /\ <<other.x, other.y>> \notin ps.processed
                      THEN trigger_bombs_no_refund(
                               [found EXCEPT
                                  !.bombs[k] = det,
                                  !.queue = IF InSeq(det, @) THEN @ ELSE Append(@, det),
                                  !.processed = @ \cup {<<other.x, other.y>>}],
                               nx, ny, k + 1)
                      ELSE trigger_bombs_no_refund(found, nx, ny, k + 1)
             ELSE trigger_bombs_no_refund(ps, nx, ny, k + 1)

RECURSIVE trigger_bombs(_, _, _, _)
\* the loop "for other_bomb in self.bombs" of one ray step, from index k
trigger_bombs(ps, nx, ny, k) ==
    IF k > Len(ps.bombs) THEN ps
    ELSE LET other == ps.bombs[k]
         IN  IF other.x = nx /\ other.y = ny
             THEN LET found == [ps EXCEPT !.bomb_found = TRUE]
                      det   == [other EXCEPT !.timer = 0]
                  IN  IF other.timer > 0 /\ <<other.x, other.y>> \notin ps.processed
                      THEN trigger_bombs(
                               [found EXCEPT
                                  !.bombs[k] = det,
                                  !.agents[other.owner_id].bombs_left = @ + 1,
                                  !.queue = IF InSeq(det, @) THEN @ ELSE Append(@, det),
                                  !.processed = @ \cup {<<other.x, other.y>>}],
                               nx, ny, k + 1)
                      ELSE trigger_bombs(found, nx, ny, k + 1)
             ELSE trigger_bombs(ps, nx, ny, k + 1)

\* a ray that is one cell longer
reach_one_more(bomb) == bomb.range + 1

\* the end of "range(1, bomb.range)": the first step a ray does not make
reach(bomb) == bomb.range

RECURSIVE cast_ray(_, _, _, _, _)
\* a ray that goes on past the box it hit
pass_box(ps, g, bomb, d, i) == cast_ray(ps, g, bomb, d, i + 1)

\* a box that only the first bomb to hit it scores for
only_first_hit_counts(ps, g, bomb, d, i) ==
    [ps EXCEPT !.box_hit_by[<<bomb.x + d[1] * i, bomb.y + d[2] * i>>] =
        IF Cardinality(@) > 1 THEN @ \ {bomb.owner_id} ELSE @]

\* "break  # explosion stops after hitting a box"
stop_at_box(ps, g, bomb, d, i) == ps

\* the loop "for i in range(1, bomb.range)" in direction d, from step i
cast_ray(ps, g, bomb, d, i) ==
    IF i >= reach(bomb) THEN ps
    ELSE LET nx == bomb.x + d[1] * i
             ny == bomb.y + d[2] * i
         IN  IF ~in_bounds(nx, ny) THEN ps
             ELSE LET hit == [ps EXCEPT
                                !.scorched = @ \cup {<<nx, ny>>},
                                !.rays = @ \cup {[owner |-> bomb.owner_id,
                                                  from  |-> <<bomb.x, bomb.y>>,
                                                  cell  |-> <<nx, ny>>]}]
                  IN  IF g[<<nx, ny>>] = BOX
                      THEN stop_at_box(
                               [hit EXCEPT !.box_hit_by[<<nx, ny>>] = @ \cup {bomb.owner_id}],
                               g, bomb, d, i)
                      ELSE LET after == trigger_bombs([hit EXCEPT !.bomb_found = FALSE],
                                                      nx, ny, 1)
                           IN  IF after.bomb_found THEN after
                               ELSE cast_ray(after, g, bomb, d, i + 1)

RECURSIVE blast(_, _, _, _)
\* the loop "for dx, dy in Game.DIRECTIONS" of one bomb, from direction k
blast(ps, g, bomb, k) ==
    IF k > Len(DIRECTIONS) THEN ps
    ELSE blast(cast_ray(ps, g, bomb, DIRECTIONS[k], 1), g, bomb, k + 1)

RECURSIVE drain_queue(_, _)
\* the loop "while queue"
drain_queue(ps, g) ==
    IF ps.queue = << >> THEN ps
    ELSE LET bomb   == Head(ps.queue)
             popped == [ps EXCEPT !.queue = Tail(@),
                                  !.scorched = @ \cup {<<bomb.x, bomb.y>>}]
         IN  drain_queue(blast(popped, g, bomb, 1), g)

\* a removal of chain-reacted bombs that removes nothing
keep_all(bs) == bs

\* "Remove chain-reacted bombs from main list"
still_live(bs) == SelectSeq(bs, LAMBDA b : b.timer > 0)

\* a score that goes to the lowest owner id of each box only
box_score_first_owner(hit, box_hit_by, a) ==
    Cardinality({c \in hit : a \in box_hit_by[c] /\ \A o \in box_hit_by[c] : a <= o})

\* a score that every agent gets for every destroyed box
box_score_everyone(hit, box_hit_by, a) == Cardinality(hit)

\* the boxes_blown_up agent a gains: 1 for each destroyed box it is an owner of
box_score(hit, box_hit_by, a) == Cardinality({c \in hit : a \in box_hit_by[c]})

\* a propagation that scores the boxes it hit and leaves them on the grid
propagate_explosions_boxes_stand(exploding_bombs, bs, ags, g) ==
    LET start == [queue      |-> exploding_bombs,
                  scorched   |-> {},
                  processed  |-> {<<exploding_bombs[i].x, exploding_bombs[i].y>> :
                                     i \in 1 .. Len(exploding_bombs)},
                  box_hit_by |-> [c \in Cells |-> {}],
                  bombs      |-> bs,
                  agents     |-> ags,
                  bomb_found |-> FALSE,
                  rays       |-> {}]
        end   == drain_queue(start, g)
        hit   == {c \in Cells : end.box_hit_by[c] # {} /\ g[c] = BOX}
    IN  [explosions |-> end.scorched,
         grid       |-> g,
         agents     |-> [a \in AgentIds |->
                           [end.agents[a] EXCEPT !.boxes_blown_up =
                               @ + box_score(hit, end.box_hit_by, a)]],
         bombs      |-> still_live(end.bombs),
         rays       |-> end.rays]

\* Game.propagate_explosions: [explosions, grid, agents, bombs, rays]
propagate_explosions(exploding_bombs, bs, ags, g) ==
    LET start == [queue      |-> exploding_bombs,
                  scorched   |-> {},
                  processed  |-> {<<exploding_bombs[i].x, exploding_bombs[i].y>> :
                                     i \in 1 .. Len(exploding_bombs)},
                  box_hit_by |-> [c \in Cells |-> {}],
                  bombs      |-> bs,
                  agents     |-> ags,
                  bomb_found |-> FALSE,
                  rays       |-> {}]
        end   == drain_queue(start, g)
        hit   == {c \in Cells : end.box_hit_by[c] # {} /\ g[c] = BOX}
    IN  [explosions |-> end.scorched,
         grid       |-> [c \in Cells |-> IF c \in hit THEN FLOOR ELSE g[c]],
         agents     |-> [a \in AgentIds |->
                           [end.agents[a] EXCEPT !.boxes_blown_up =
                               @ + box_score(hit, end.box_hit_by, a)]],
         bombs      |-> still_live(end.bombs),
         rays       |-> end.rays]

(* ---------------------------------------------------------------------- *)
(* Action strings.  A Python str is a sequence of one-character strings,   *)
(* so that splitting, upper-casing and int() are computed, not assumed.    *)
(* ---------------------------------------------------------------------- *)
Whitespace == {" "}

DigitChars == <<"0", "1", "2", "3", "4", "5", "6", "7", "8", "9">>

IsDigit(c) == \E i \in 1 .. Len(DigitChars) : DigitChars[i] = c

DigitValue(c) == (CHOOSE i \in 1 .. Len(DigitChars) : DigitChars[i] = c) - 1

LowerChars == <<"a", "b", "d", "e", "i", "l", "m", "o", "p", "s", "v">>

UpperChars == <<"A", "B", "D", "E", "I", "L", "M", "O", "P", "S", "V">>

\* an upper() that leaves its argument as it is
upper_none(s) == s

\* str.upper, on the letters the model's inputs use
upper(s) ==
    [i \in 1 .. Len(s) |->
        IF \E k \in 1 .. Len(LowerChars) : LowerChars[k] = s[i]
        THEN UpperChars[CHOOSE k \in 1 .. Len(LowerChars) : LowerChars[k] = s[i]]
        ELSE s[i]]

RECURSIVE lstrip(_)
lstrip(s) == IF s # << >> /\ Head(s) \in Whitespace THEN lstrip(Tail(s)) ELSE s

RECURSIVE first_word_len(_)
first_word_len(s) ==
    IF s = << >> \/ Head(s) \in Whitespace THEN 0 ELSE 1 + first_word_len(Tail(s))

RECURSIVE split(_, _)
\* str.split(maxsplit=n) with no separator: runs of whitespace separate, and
\* after n splits the rest of the string is one last element
split(s, maxsplit) ==
    LET rest == lstrip(s)
        n    == first_word_len(rest)
    IN  IF rest = << >> THEN << >>
        ELSE IF maxsplit = 0 THEN <<rest>>
        ELSE <<SubSeq(rest, 1, n)>> \o split(SubSeq(rest, n + 1, Len(rest)), maxsplit - 1)

\* the digits-and-underscores part of an int() literal: digits, with single
\* underscores only between digits
IsDigitRun(t) ==
    /\ t # << >>
    /\ IsDigit(t[1])
    /\ IsDigit(t[Len(t)])
    /\ \A i \in 1 .. Len(t) : IsDigit(t[i]) \/ t[i] = "_"
    /\ \A i \in 1 .. (Len(t) - 1) : ~(t[i] = "_" /\ t[i + 1] = "_")

Unsigned(t) == IF t # << >> /\ t[1] \in {"+", "-"} THEN Tail(t) ELSE t

\* whether int(t) returns rather than raising ValueError
is_int(t) == IsDigitRun(Unsigned(t))

RECURSIVE digits_value(_)
digits_value(t) ==
    IF t = << >> THEN 0
    ELSE IF t[Len(t)] = "_" THEN digits_value(SubSeq(t, 1, Len(t) - 1))
    ELSE 10 * digits_value(SubSeq(t, 1, Len(t) - 1)) + DigitValue(t[Len(t)])

\* int(t), for a t with is_int(t)
to_int(t) ==
    IF t[1] = "-" THEN 0 - digits_value(Unsigned(t)) ELSE digits_value(Unsigned(t))

\* Game.parse_action: [raised, message_set, message, cmd, x, y].  The message is
\* stored on the agent before the coordinates are converted.
parse_action(action) ==
    LET pack == split(action, 3)
    IN  IF Len(pack) < 3
        THEN [raised |-> TRUE, message_set |-> FALSE, message |-> << >>,
              cmd |-> << >>, x |-> 0, y |-> 0]
        ELSE LET msg == IF Len(pack) > 3 THEN pack[4] ELSE << >>
             IN  IF is_int(pack[2]) /\ is_int(pack[3])
                 THEN [raised |-> FALSE, message_set |-> TRUE, message |-> msg,
                       cmd |-> upper(pack[1]), x |-> to_int(pack[2]), y |-> to_int(pack[3])]
                 ELSE [raised |-> TRUE, message_set |-> TRUE, message |-> msg,
                       cmd |-> << >>, x |-> 0, y |-> 0]

(* ---------------------------------------------------------------------- *)
(* Movement                                                                *)
(* ---------------------------------------------------------------------- *)
BombsAt(bs, x, y) == SelectSeq(bs, LAMBDA b : b.x = x /\ b.y = y)

\* a walkable that boxes do not block
walkable_through_boxes(bs, g, x, y) ==
    IF ~in_bounds(x, y) THEN FALSE
    ELSE LET here == BombsAt(bs, x, y)
         IN  ~(here # << >> /\ here[1].timer < LIFETIME)

\* a walkable that bombs do not block
walkable_over_bombs(bs, g, x, y) ==
    IF ~in_bounds(x, y) THEN FALSE ELSE g[<<x, y>>] = FLOOR

\* a walkable that any bomb blocks, also one placed in the current turn
walkable_no_bomb(bs, g, x, y) ==
    IF ~in_bounds(x, y) THEN FALSE
    ELSE BombsAt(bs, x, y) = << >> /\ g[<<x, y>>] = FLOOR

\* Game.walkable
walkable(bs, g, x, y) ==
    IF ~in_bounds(x, y) THEN FALSE
    ELSE LET here == BombsAt(bs, x, y)
         IN  IF here # << >> /\ here[1].timer < LIFETIME THEN FALSE
             ELSE g[<<x, y>>] = FLOOR

None == << >>

RECURSIVE expand(_, _, _, _, _, _)
\* the loop "for dr, dc in Game.DIRECTIONS" for one dequeued cell, from direction k:
\* [queue, visited]
expand(bs, g, current, q, visited, k) ==
    IF k > Len(DIRECTIONS) THEN [queue |-> q, visited |-> visited]
    ELSE LET row == current[1][1] + DIRECTIONS[k][1]
             col == current[1][2] + DIRECTIONS[k][2]
         IN  IF walkable(bs, g, col, row) /\ <<row, col>> \notin visited
             THEN expand(bs, g, current,
                         Append(q, <<  <<row, col>>, Append(current[2], <<row, col>>)  >>),
                         visited \cup {<<row, col>>}, k + 1)
             ELSE expand(bs, g, current, q, visited, k + 1)

RECURSIVE search_depth_first(_, _, _, _, _)
\* a search that takes the cell enqueued last, not first
search_depth_first(bs, g, dst, q, visited) ==
    IF q = << >> THEN None
    ELSE LET current == q[Len(q)]
         IN  IF current[1] = dst
             THEN IF Len(current[2]) > 1 THEN current[2][2] ELSE None
             ELSE LET next == expand(bs, g, current, SubSeq(q, 1, Len(q) - 1),
                                     visited, 1)
                  IN  search_depth_first(bs, g, dst, next.queue, next.visited)

RECURSIVE search(_, _, _, _, _)
\* the loop "while queue" of Game.path
search(bs, g, dst, q, visited) ==
    IF q = << >> THEN None
    ELSE LET current == Head(q)
         IN  IF current[1] = dst
             THEN IF Len(current[2]) > 1 THEN current[2][2] ELSE None
             ELSE LET next == expand(bs, g, current, Tail(q), visited, 1)
                  IN  search(bs, g, dst, next.queue, next.visited)

\* Game.path: src and dst are (row, col); the next cell (row, col) or None
path(bs, g, src, dst) == search(bs, g, dst, <<  <<src, <<src>>  >>  >>, {src})

\* the list comprehension of Game.move: the walkable cells next to (x, y)
Alternatives(bs, g, x, y) ==
    LET all == [k \in 1 .. Len(DIRECTIONS) |->
                  <<x + DIRECTIONS[k][1], y + DIRECTIONS[k][2]>>]
    IN  SelectSeq(all, LAMBDA c : walkable(bs, g, c[1], c[2]))

Abs(n) == IF n < 0 THEN 0 - n ELSE n

\* a min that returns the last of the closest cells, not the first
closest_last(cells, agent) ==
    LET key(c) == Abs(agent.x - c[1]) + Abs(agent.y - c[2])
        best   == CHOOSE i \in 1 .. Len(cells) :
                      /\ \A j \in 1 .. Len(cells) : key(cells[i]) <= key(cells[j])
                      /\ \A j \in (i + 1) .. Len(cells) : key(cells[j]) > key(cells[i])
    IN  cells[best]

\* min(cells, key = Manhattan distance to the agent): the first minimum
Closest(cells, agent) ==
    LET key(c) == Abs(agent.x - c[1]) + Abs(agent.y - c[2])
        best   == CHOOSE i \in 1 .. Len(cells) :
                      /\ \A j \in 1 .. Len(cells) : key(cells[i]) <= key(cells[j])
                      /\ \A j \in 1 .. (i - 1) : key(cells[j]) > key(cells[i])
    IN  cells[best]

\* a move that takes the agent all the way to the cell it heads for
move_all_the_way(bs, g, agent, x, y) ==
    IF agent.x = x /\ agent.y = y
    THEN [agent |-> [agent EXCEPT !.state = IDLE], raised |-> FALSE]
    ELSE LET alts == Alternatives(bs, g, x, y)
         IN  IF ~walkable(bs, g, x, y) /\ alts = << >>
             THEN [agent |-> agent, raised |-> TRUE]
             ELSE LET target    == IF walkable(bs, g, x, y) THEN <<x, y>>
                                   ELSE Closest(alts, agent)
                      next_cell == path(bs, g, <<agent.y, agent.x>>,
                                        <<target[2], target[1]>>)
                  IN  IF next_cell # None
                      THEN [agent  |-> [agent EXCEPT !.state = MOVING,
                                                     !.x = target[1],
                                                     !.y = target[2]],
                            raised |-> FALSE]
                      ELSE [agent |-> [agent EXCEPT !.state = IDLE], raised |-> FALSE]

\* Game.move: [agent, raised]; raised is the ValueError of min() on an empty list
move(bs, g, agent, x, y) ==
    IF agent.x = x /\ agent.y = y
    THEN [agent |-> [agent EXCEPT !.state = IDLE], raised |-> FALSE]
    ELSE LET alts == Alternatives(bs, g, x, y)
         IN  IF ~walkable(bs, g, x, y) /\ alts = << >>
             THEN [agent |-> agent, raised |-> TRUE]
             ELSE LET target    == IF walkable(bs, g, x, y) THEN <<x, y>>
                                   ELSE Closest(alts, agent)
                      next_cell == path(bs, g, <<agent.y, agent.x>>,
                                        <<target[2], target[1]>>)
                  IN  IF next_cell # None
                      THEN [agent  |-> [agent EXCEPT !.state = MOVING,
                                                     !.x = next_cell[2],
                                                     !.y = next_cell[1]],
                            raised |-> FALSE]
                      ELSE [agent |-> [agent EXCEPT !.state = IDLE], raised |-> FALSE]

(* ---------------------------------------------------------------------- *)
(* Action interpreter (Game.process_agent_actions)                         *)
(* ---------------------------------------------------------------------- *)
CmdBomb == <<"B", "O", "M", "B">>

CmdMove == <<"M", "O", "V", "E">>

Disqualify(agent) == [agent EXCEPT !.disqualified = TRUE]

\* a BOMB branch that places the bomb and leaves bombs_left as it is
place_bomb_free(bs, agent, cmd) ==
    IF cmd = CmdBomb /\ agent.bombs_left > 0 /\ BombsAt(bs, agent.x, agent.y) = << >>
    THEN [bombs |-> Append(bs, Bomb(agent.id, agent.x, agent.y)), agent |-> agent]
    ELSE [bombs |-> bs, agent |-> agent]

\* a BOMB branch that does not look for a bomb on the agent's cell
place_bomb_crowded(bs, agent, cmd) ==
    IF cmd = CmdBomb /\ agent.bombs_left > 0
    THEN [bombs |-> Append(bs, Bomb(agent.id, agent.x, agent.y)),
          agent |-> [agent EXCEPT !.bombs_left = @ - 1]]
    ELSE [bombs |-> bs, agent |-> agent]

\* the BOMB branch: a bomb is placed at the agent's cell when the agent has one
\* left and no bomb is there yet: [bombs, agent]
place_bomb(bs, agent, cmd) ==
    IF cmd = CmdBomb /\ agent.bombs_left > 0 /\ BombsAt(bs, agent.x, agent.y) = << >>
    THEN [bombs |-> Append(bs, Bomb(agent.id, agent.x, agent.y)),
          agent |-> [agent EXCEPT !.bombs_left = @ - 1]]
    ELSE [bombs |-> bs, agent |-> agent]

\* a handler that clears the flag of an agent whose action succeeded
after_move_requalify(bs, moved) ==
    [bombs |-> bs,
     agent |-> [moved.agent EXCEPT !.disqualified = moved.raised]]

\* "except ValueError" around self.move: [bombs, agent]
after_move(bs, moved) ==
    [bombs |-> bs,
     agent |-> IF moved.raised THEN Disqualify(moved.agent) ELSE moved.agent]

move_placed(placed, g, x, y) ==
    after_move(placed.bombs, move(placed.bombs, g, placed.agent, x, y))

\* the try block after parse_action returned or raised: [bombs, agent]
apply_parsed(bs, g, agent, parsed) ==
    IF parsed.raised \/ ~in_bounds(parsed.x, parsed.y)
    THEN [bombs |-> bs, agent |-> Disqualify(agent)]
    ELSE IF parsed.cmd # CmdBomb /\ parsed.cmd # CmdMove
    THEN [bombs |-> bs, agent |-> Disqualify(agent)]
    ELSE move_placed(place_bomb(bs, agent, parsed.cmd), g, parsed.x, parsed.y)

\* parse_action stores the message on the agent unless it raised before
with_message(agent, parsed) ==
    IF parsed.message_set THEN [agent EXCEPT !.message = parsed.message] ELSE agent

apply_action(bs, g, agent, parsed) ==
    apply_parsed(bs, g, with_message(agent, parsed), parsed)

\* the body of the loop for one agent: [bombs, agent]
process_one(bs, g, agent, action) == apply_action(bs, g, agent, parse_action(action))

RECURSIVE process_until_raise(_, _, _, _, _)
\* a loop that the first disqualification ends
process_until_raise(bs, ags, g, acts, k) ==
    IF k \notin AgentIds THEN [bombs |-> bs, agents |-> ags]
    ELSE LET one == process_one(bs, g, ags[k], acts[k])
         IN  IF one.agent.disqualified
             THEN [bombs |-> one.bombs, agents |-> [ags EXCEPT ![k] = one.agent]]
             ELSE process_until_raise(one.bombs, [ags EXCEPT ![k] = one.agent],
                                      g, acts, k + 1)

RECURSIVE process_from(_, _, _, _, _)
RECURSIVE process_next(_, _, _, _, _)
\* the loop "for agent_id, action in actions.items()", from agent k
process_from(bs, ags, g, acts, k) ==
    IF k \notin AgentIds THEN [bombs |-> bs, agents |-> ags]
    ELSE process_next(process_one(bs, g, ags[k], acts[k]), ags, g, acts, k)

process_next(one, ags, g, acts, k) ==
    process_from(one.bombs, [ags EXCEPT ![k] = one.agent], g, acts, k + 1)

\* Game.process_agent_actions: [bombs, agents]
process_agent_actions(bs, ags, g, acts) == process_from(bs, ags, g, acts, 0)

(* ---------------------------------------------------------------------- *)
(* What the agents answer.  f"MOVE {x} {y}" / f"BOMB {x} {y}" is how the   *)
(* agents of the repository format an action.                              *)
(* ---------------------------------------------------------------------- *)
RECURSIVE int_str(_)
\* str(n) for n >= 0
int_str(n) == IF n < 10 THEN <<DigitChars[n + 1]>>
              ELSE int_str(n \div 10) \o <<DigitChars[(n % 10) + 1]>>

format_action(cmd, x, y) == cmd \o <<" ">> \o int_str(x) \o <<" ">> \o int_str(y)

\* "" (no answer in time), and a malformed answer
NoAnswer == << >>

Garbage == <<"D", "I", "E">>

\* what an agent of the game may answer in a turn
GameOutputs ==
    {format_action(CmdBomb, 0, 1), format_action(CmdMove, 0, 1), NoAnswer, Garbage}

(* ---------------------------------------------------------------------- *)
(* AspAgent: the caller of send_turn_state()/receive(), the worker thread  *)
(* running __main, and the Timer thread running __timeout.  A block under  *)
(* `with self.lock` is one step; run_condition.wait() gives the lock up    *)
(* and parks the thread until a notify() picks it.  The agent is agent 0,  *)
(* its disqualified flag is agents[0].disqualified.                        *)
(* ---------------------------------------------------------------------- *)
\* the atoms the filter move/2, placeBomb/2 lets through
MoveAtom(x, y) == [pred |-> "move", x |-> x, y |-> y]

PlaceBombAtom(x, y) == [pred |-> "placeBomb", x |-> x, y |-> y]

\* self.answer_sets = None
NoAnswerSets == [ready |-> FALSE, errors |-> FALSE, atoms |-> << >>]

\* what handler.start_sync() may hand back: an answer set with a move atom,
\* one with a placeBomb atom, an empty one, and solver errors
SolverOutputs ==
    {[ready |-> TRUE, errors |-> FALSE, atoms |-> <<MoveAtom(5, 6)>>],
     [ready |-> TRUE, errors |-> FALSE, atoms |-> <<PlaceBombAtom(1, 0)>>],
     [ready |-> TRUE, errors |-> FALSE, atoms |-> << >>],
     [ready |-> TRUE, errors |-> TRUE, atoms |-> << >>]}

\* the state __init__ leaves, the worker started and the caller about to
\* call send_turn_state(); finished / timed_out / solves are ghosts
NewAspAgent ==
    [caller      |-> "send",
     worker      |-> "top",
     timer       |-> "unset",
     is_running  |-> FALSE,
     answer_sets |-> NoAnswerSets,
     waiters     |-> {},
     ret         |-> << >>,
     in_time     |-> FALSE,
     timed_out   |-> FALSE,
     solves      |-> 0]

\* run_condition.notify(): one of the parked threads, if any, is made to run
notify_nobody(s) == {s}

notify(s) == IF s.waiters = {} THEN {s}
             ELSE {[s EXCEPT !.waiters = @ \ {w}, ![w] = "woken"] : w \in s.waiters}

\* run_condition.wait() by thread w
wait(s, w) == [s EXCEPT !.waiters = @ \cup {w}, ![w] = "waiting"]

\* the part of receive() after timer.cancel()
receive_result(disqualified, answer_sets) ==
    IF disqualified THEN << >>
    ELSE IF answer_sets.errors THEN << >>
    ELSE IF answer_sets.atoms = << >> THEN << >>
    ELSE LET atom == answer_sets.atoms[1]
         IN  IF atom.pred = "move" THEN format_action(CmdMove, atom.x, atom.y)
             ELSE format_action(CmdBomb, atom.x, atom.y)

\* the game itself stands still while one send_turn_state()/receive() runs
GameFrame == <<grid, bombs, explosions, turn, running, boxes_left,
               pc, exploding, actions, rays, late>>

\* send_turn_state(): is_running = True; notify()
SendTurnState ==
    /\ asp.caller = "send"
    /\ asp' \in notify([asp EXCEPT !.is_running = TRUE, !.caller = "receive"])
    /\ UNCHANGED <<agents, GameFrame>>

\* receive(): timer = Timer(...); timer.start()
StartTimer ==
    /\ asp.caller = "receive"
    /\ asp' = [asp EXCEPT !.timer = "armed", !.caller = "lock"]
    /\ UNCHANGED <<agents, GameFrame>>

\* receive(): with self.lock: while self.is_running and not
\* self.disqualified: wait() -- entered the first time, or after a wake-up
ReceiveLock ==
    /\ asp.caller \in {"lock", "woken"}
    /\ asp' = IF asp.is_running /\ ~agents[0].disqualified
              THEN wait(asp, "caller")
              ELSE [asp EXCEPT !.caller = "cancel"]
    /\ UNCHANGED <<agents, GameFrame>>

\* receive(): timer.cancel() stops a timer that has not expired yet, and
\* does nothing to one whose thread is already past its wait
TimerCancel ==
    /\ asp.caller = "cancel"
    /\ asp' = [asp EXCEPT !.timer = IF @ = "armed" THEN "cancelled" ELSE @,
                          !.caller = "return"]
    /\ UNCHANGED <<agents, GameFrame>>

\* receive(): the reads of self.disqualified and self.answer_sets, and the
\* return
ReceiveReturn ==
    /\ asp.caller = "return"
    /\ asp' = [asp EXCEPT !.ret = receive_result(agents[0].disqualified,
                                                 asp.answer_sets),
                          !.caller = "done"]
    /\ UNCHANGED <<agents, GameFrame>>

\* __main: with self.lock: while not self.is_running: wait()
WorkerLock ==
    /\ asp.worker \in {"top", "woken"}
    /\ asp' = IF ~asp.is_running
              THEN wait(asp, "worker")
              ELSE [asp EXCEPT !.worker = "solving", !.solves = @ + 1]
    /\ UNCHANGED <<agents, GameFrame>>

\* __main: self.answer_sets = self.handler.start_sync(), outside the lock;
\* the solver may also never come back, then this step is never taken
StartSync ==
    /\ asp.worker = "solving"
    /\ \E out \in SolverOutputs :
          asp' = [asp EXCEPT !.answer_sets = out, !.worker = "solved"]
    /\ UNCHANGED <<agents, GameFrame>>

\* __main: with self.lock: is_running = False; notify()
WorkerDone ==
    /\ asp.worker = "solved"
    /\ asp' \in notify([asp EXCEPT !.is_running = FALSE, !.worker = "top",
                                   !.in_time = asp.timer \in {"unset", "armed"}])
    /\ UNCHANGED <<agents, GameFrame>>

\* the Timer thread: the response budget runs out
TimerExpire ==
    /\ asp.timer = "armed"
    /\ asp' = [asp EXCEPT !.timer = "fired"]
    /\ UNCHANGED <<agents, GameFrame>>

\* __timeout: with self.lock: disqualified = True; notify()
Timeout ==
    /\ asp.timer = "fired"
    /\ agents' = [agents EXCEPT ![0].disqualified = TRUE]
    /\ asp' \in notify([asp EXCEPT !.timer = "done",
                                   !.timed_out = asp.is_running])
    /\ UNCHANGED GameFrame

(* ---------------------------------------------------------------------- *)
(* The game                                                                *)
(* ---------------------------------------------------------------------- *)
Layout(boxes) == [c \in Cells |-> IF c \in boxes THEN BOX ELSE FLOOR]

\* the layouts a game may start from, each given by its box cells
LAYOUTS == {Layout({<<2, 0>>, <<WIDTH - 3, HEIGHT - 1>>})}

\* Agent.__init__
NewAgent(agent_id, start_cell) ==
    [id |-> agent_id, x |-> start_cell[1], y |-> start_cell[2],
     bombs_left |-> INITIAL_BOMBS, boxes_blown_up |-> 0, disqualified |-> FALSE,
     message |-> << >>, state |-> IDLE]

NoActions == [a \in AgentIds |-> << >>]

\* Game.__init__
Init ==
    /\ grid \in LAYOUTS
    /\ bombs = << >>
    /\ agents = [a \in AgentIds |-> NewAgent(a, START_POSITIONS[a + 1])]
    /\ explosions = {}
    /\ turn = 0
    /\ running = TRUE
    /\ boxes_left = count_boxes_left(grid)
    /\ pc = "start"
    /\ exploding = << >>
    /\ actions = NoActions
    /\ rays = {}
    /\ late = 0
    /\ asp = NewAspAgent

\* update() is entered: by the main loop while the game is running, and by its
\* catch-up loop, which does not look at running, at most MaxLate times after
\* the game has ended.  Then tick_bombs runs.
TickBombs ==
    /\ pc = "start"
    /\ running \/ late < MaxLate
    /\ late' = IF running THEN late ELSE late + 1
    /\ LET t == tick_bombs(bombs, agents)
       IN  /\ exploding' = t.exploding
           /\ bombs' = t.bombs
           /\ agents' = t.agents
    /\ pc' = "ticked"
    /\ UNCHANGED <<grid, explosions, turn, running, boxes_left, actions, rays, asp>>

\* a propagation step that adds the pass's cells to the cells on fire before
PropagateExplosionsKeepOld ==
    /\ pc = "ticked"
    /\ LET p == propagate_explosions(exploding, bombs, agents, grid)
       IN  /\ explosions' = explosions \cup p.explosions
           /\ grid' = p.grid
           /\ agents' = p.agents
           /\ bombs' = p.bombs
           /\ rays' = p.rays
    /\ pc' = "propagated"
    /\ UNCHANGED <<turn, running, boxes_left, exploding, actions, late, asp>>

\* a propagation step that takes the agents standing in the blast out of the
\* game
PropagateExplosionsHarm ==
    /\ pc = "ticked"
    /\ LET p == propagate_explosions(exploding, bombs, agents, grid)
       IN  /\ explosions' = p.explosions
           /\ grid' = p.grid
           /\ agents' = [a \in AgentIds |->
                           [p.agents[a] EXCEPT !.disqualified =
                               @ \/ <<p.agents[a].x, p.agents[a].y>> \in p.explosions]]
           /\ bombs' = p.bombs
           /\ rays' = p.rays
    /\ pc' = "propagated"
    /\ UNCHANGED <<turn, running, boxes_left, exploding, actions, late, asp>>

PropagateExplosions ==
    /\ pc = "ticked"
    /\ LET p == propagate_explosions(exploding, bombs, agents, grid)
       IN  /\ explosions' = p.explosions
           /\ grid' = p.grid
           /\ agents' = p.agents
           /\ bombs' = p.bombs
           /\ rays' = p.rays
    /\ pc' = "propagated"
    /\ UNCHANGED <<turn, running, boxes_left, exploding, actions, late, asp>>

\* every agent is asked for its action, then process_agent_actions runs
ProcessAgentActions(answers, record) ==
    /\ pc = "propagated"
    /\ \E acts \in answers :
          /\ actions' = IF record THEN acts ELSE NoActions
          /\ LET r == process_agent_actions(bombs, agents, grid, acts)
             IN  /\ bombs' = r.bombs
                 /\ agents' = r.agents
    /\ pc' = "acted"
    /\ UNCHANGED <<grid, explosions, turn, running, boxes_left, exploding, rays, late, asp>>

\* an end-of-game condition that forgets the disqualified agents
game_over_no_disqualification(t, boxes, ags) == t >= MAX_TURNS \/ boxes = 0

\* an end-of-game condition that is one turn late
game_over_late(t, boxes, ags) ==
    t > MAX_TURNS \/ boxes = 0 \/ \E a \in AgentIds : ags[a].disqualified

\* the end-of-game condition of update()
game_over(t, boxes, ags) ==
    t >= MAX_TURNS \/ boxes = 0 \/ \E a \in AgentIds : ags[a].disqualified

\* a tail of update() that does not count the boxes again
EndTurnNoRecount ==
    /\ pc = "acted"
    /\ boxes_left' = boxes_left
    /\ turn' = turn + 1
    /\ running' = IF game_over(turn + 1, count_boxes_left(grid), agents)
                  THEN FALSE ELSE running
    /\ pc' = "start"
    /\ exploding' = << >>
    /\ actions' = NoActions
    /\ rays' = {}
    /\ UNCHANGED <<grid, bombs, agents, explosions, late, asp>>

\* the tail of update(): boxes_left, turn, the end-of-game condition
EndTurn ==
    /\ pc = "acted"
    /\ boxes_left' = count_boxes_left(grid)
    /\ turn' = turn + 1
    /\ running' = IF game_over(turn + 1, count_boxes_left(grid), agents)
                  THEN FALSE ELSE running
    /\ pc' = "start"
    /\ exploding' = << >>
    /\ actions' = NoActions
    /\ rays' = {}
    /\ UNCHANGED <<grid, bombs, agents, explosions, late, asp>>

Next ==
    \/ TickBombs
    \/ PropagateExplosions
    \/ ProcessAgentActions([AgentIds -> GameOutputs], TRUE)
    \/ EndTurn

Spec == Init /\ [][Next]_vars

(* ---------------------------------------------------------------------- *)
(* The winners                                                             *)
(* ---------------------------------------------------------------------- *)
\* Game.agents as the list it is
agent_list(ags) == [i \in 1 .. NumAgents |-> ags[i - 1]]

\* max(scores, default = 0)
max_score(candidates) ==
    IF candidates = << >> THEN 0
    ELSE LET i == CHOOSE k \in 1 .. Len(candidates) :
                     \A j \in 1 .. Len(candidates) :
                         candidates[j].boxes_blown_up <= candidates[k].boxes_blown_up
         IN  candidates[i].boxes_blown_up

\* the agents with the top score, disqualified or not
get_winners_any(ags) ==
    SelectSeq(agent_list(ags),
              LAMBDA a : a.boxes_blown_up = max_score(agent_list(ags)))

\* Game.get_winners
get_winners(ags) ==
    LET candidates == SelectSeq(agent_list(ags), LAMBDA a : ~a.disqualified)
    IN  SelectSeq(candidates,
                  LAMBDA a : a.boxes_blown_up = max_score(candidates))


(* ---------------------------------------------------------------------- *)
(* The propagation pass on its own: update() is entered at a turn boundary *)
(* some turns into a game, and runs tick_bombs and propagate_explosions.   *)
(* The boundary states are those a game can be in: every agent has at      *)
(* most INITIAL_BOMBS live bombs, no two bombs share a cell, no bomb is on *)
(* a box, and the bomb list is in placement order (the older bomb first,   *)
(* and of two bombs placed in the same turn the lower agent id first).     *)
(* ---------------------------------------------------------------------- *)
\* the cells that may hold a box at the boundary
BlastBoxCells == {<<1, 0>>, <<2, 0>>, <<2, 1>>, <<1, 2>>}

\* the timers a live bomb may show at the boundary: about to explode, or not
BlastTimers == {1, 5}

\* a bomb placed LIFETIME - t turns ago
AgedBomb(owner_id, c, t) == [Bomb(owner_id, c[1], c[2]) EXCEPT !.timer = t]

\* the live bomb lists of a boundary state on grid g
BombLists(g) ==
    LET one == {AgedBomb(a, c, t) :
                   a \in AgentIds, c \in {f \in Cells : g[f] = FLOOR}, t \in BlastTimers}
        two == {p \in one \X one :
                   /\ p[1].owner_id # p[2].owner_id
                   /\ <<p[1].x, p[1].y>> # <<p[2].x, p[2].y>>
                   /\ \/ p[1].timer < p[2].timer
                      \/ p[1].timer = p[2].timer /\ p[1].owner_id < p[2].owner_id}
    IN  {<< >>} \cup {<<b>> : b \in one} \cup {<<p[1], p[2]>> : p \in two}

InitBlast ==
    /\ grid \in {Layout(boxes) : boxes \in SUBSET BlastBoxCells}
    /\ bombs \in BombLists(grid)
    /\ agents = [a \in AgentIds |->
                   [NewAgent(a, START_POSITIONS[a + 1]) EXCEPT
                       !.bombs_left = INITIAL_BOMBS - OwnedCount(bombs, a)]]
    /\ explosions = {}
    /\ turn = LIFETIME
    /\ running = TRUE
    /\ boxes_left = count_boxes_left(grid)
    /\ pc = "start"
    /\ exploding = << >>
    /\ actions = NoActions
    /\ rays = {}
    /\ late = 0
    /\ asp = NewAspAgent

NextBlast ==
    \/ TickBombs
    \/ PropagateExplosions

SpecBlast == InitBlast /\ [][NextBlast]_vars

(* ---------------------------------------------------------------------- *)
(* The action interpreter on its own: update() has ticked and propagated,  *)
(* asks every agent for its action and runs process_agent_actions.  One    *)
(* agent answers anything of ActAnswers, the other one of OtherAnswers.    *)
(* ---------------------------------------------------------------------- *)
\* the grids of the interpreter's states, each given by its box cells: open;
\* the game's; a box at (2, 0) shut in by boxes; a floor cell at (3, 0) shut in
ActLayouts ==
    {Layout({}),
     Layout({<<2, 0>>, <<1, 2>>}),
     Layout({<<2, 0>>, <<1, 0>>, <<3, 0>>, <<2, 1>>}),
     Layout({<<2, 0>>, <<3, 1>>})}

\* the cells that may hold a bomb, placed in an earlier turn and not about to
\* explode
ActBombCells == {<<1, 0>>, <<0, 1>>, <<1, 1>>}

\* the live bomb lists of the interpreter's states on grid g
ActBombLists(g) ==
    {bs \in BombLists(g) :
        \A i \in 1 .. Len(bs) :
            bs[i].timer > 1 /\ <<bs[i].x, bs[i].y>> \in ActBombCells}

\* where the agents may stand
ActPositions ==
    {p \in [AgentIds -> {<<0, 0>>, <<1, 1>>, <<WIDTH - 1, HEIGHT - 1>>}] :
        p[0] # <<WIDTH - 1, HEIGHT - 1>> /\ p[1] # <<1, 1>>}

\* the cells the well-formed answers name
ActTargets == {<<0, 0>>, <<1, 1>>, <<2, 0>>, <<3, 0>>}

\* "MOVE x y" and "BOMB x y"
PlainAnswers ==
    {format_action(cmd, c[1], c[2]) : cmd \in {CmdBomb, CmdMove}, c \in ActTargets}

\* "move 1 1" for "MOVE 1 1", "Bomb 1 1" for "BOMB 1 1"
lower_case(plain) ==
    IF SubSeq(plain, 1, 4) = CmdMove
    THEN <<"m", "o", "v", "e">> \o SubSeq(plain, 5, Len(plain))
    ELSE <<"B", "o", "m", "b">> \o SubSeq(plain, 5, Len(plain))

LowerCaseAnswers == {lower_case(plain) : plain \in PlainAnswers}

\* the free text an agent may add to its answer
Message == <<"h", "i", " ", "y", "o">>

with_text(plain) == plain \o <<" ">> \o Message

MessageAnswers == {with_text(plain) : plain \in PlainAnswers}

WellFormedAnswers == PlainAnswers \cup LowerCaseAnswers \cup MessageAnswers

\* "" and " "
EmptyAnswers == {NoAnswer, <<" ">>}

\* "DIE" and "MOVE 1"
ShortAnswers == {Garbage, CmdMove \o <<" ", "1">>}

\* "MOVE 0, 0", "BOMB 1 x" and "MOVE 0, 0 hi"
NonIntegerAnswers ==
    {CmdMove \o <<" ", "0", ",", " ", "0">>, CmdBomb \o <<" ", "1", " ", "x">>,
     CmdMove \o <<" ", "0", ",", " ", "0", " ", "h", "i">>}

\* "MOVE <WIDTH> 0", "BOMB 0 <HEIGHT>" and "MOVE -1 0"
OutOfGridAnswers ==
    {format_action(CmdMove, WIDTH, 0), format_action(CmdBomb, 0, HEIGHT),
     CmdMove \o <<" ", "-", "1", " ", "0">>}

\* "SLEEP 0 0" and "sleep 0 0"
BadCommandAnswers ==
    {<<"S", "L", "E", "E", "P", " ", "0", " ", "0">>,
     <<"s", "l", "e", "e", "p", " ", "0", " ", "0">>}

MalformedAnswers ==
    EmptyAnswers \cup ShortAnswers \cup NonIntegerAnswers \cup OutOfGridAnswers
        \cup BadCommandAnswers

ActAnswers == WellFormedAnswers \cup MalformedAnswers

OtherAnswers ==
    {format_action(CmdMove, 1, 1), format_action(CmdBomb, 1, 1),
     CmdMove \o <<" ", "0", ",", " ", "0">>}

ActAnswerDicts ==
    {acts \in [AgentIds -> ActAnswers \cup OtherAnswers] :
        \E a \in AgentIds : \A b \in AgentIds \ {a} : acts[b] \in OtherAnswers}

InitAct ==
    /\ grid \in ActLayouts
    /\ bombs \in ActBombLists(grid)
    /\ \E p \in ActPositions :
          agents = [a \in AgentIds |->
                      [NewAgent(a, p[a]) EXCEPT
                          !.bombs_left = INITIAL_BOMBS - OwnedCount(bombs, a)]]
    /\ explosions = {}
    /\ turn = LIFETIME
    /\ running = TRUE
    /\ boxes_left = count_boxes_left(grid)
    /\ pc = "propagated"
    /\ exploding = << >>
    /\ actions = NoActions
    /\ rays = {}
    /\ late = 0
    /\ asp = NewAspAgent

NextAct ==
    \/ ProcessAgentActions(ActAnswerDicts, TRUE)
    \/ EndTurn

SpecAct == InitAct /\ [][NextAct]_vars

(* ====================================================================== *)
(* Game.move on its own: the calls game.move(agent, x, y) of test_move,     *)
(* from boards with walls, enclosed cells and bombs                         *)
(* ====================================================================== *)
\* open; a wall to walk around; a floor cell enclosed by boxes
MoveLayouts ==
    {Layout({}),
     Layout({<<1, 0>>, <<1, 1>>}),
     Layout({<<WIDTH - 2, 0>>, <<WIDTH - 1, 1>>})}

\* no bomb; a bomb agent 0 put under itself the turn before; a bomb of an
\* earlier turn in the middle of the board
MoveBombLists(g) ==
    {bs \in {<< >>,
             <<AgedBomb(0, <<0, 0>>, LIFETIME - 1)>>,
             <<AgedBomb(1, <<1, 1>>, LIFETIME - 1)>>} :
        \A i \in 1 .. Len(bs) : g[<<bs[i].x, bs[i].y>>] = FLOOR}

\* the cells path() is asked about: the grid and two cells outside it
PathCells == Cells \cup {<<-1, 0>>, <<WIDTH - 1, HEIGHT>>}

\* the targets the agents are sent to: two corners, one of them enclosed on
\* one board, and the cell that is a box or holds a bomb on some boards
MoveTargets == {<<WIDTH - 1, HEIGHT - 1>>, <<WIDTH - 1, 0>>, <<1, 1>>}

InitMove ==
    /\ grid \in MoveLayouts
    /\ bombs \in MoveBombLists(grid)
    /\ agents = [a \in AgentIds |->
                   [NewAgent(a, START_POSITIONS[a + 1]) EXCEPT
                       !.bombs_left = INITIAL_BOMBS - OwnedCount(bombs, a)]]
    /\ explosions = {}
    /\ turn = LIFETIME
    /\ running = TRUE
    /\ boxes_left = count_boxes_left(grid)
    /\ pc = "propagated"
    /\ exploding = << >>
    /\ actions = NoActions
    /\ rays = {}
    /\ late = 0
    /\ asp = NewAspAgent

\* game.move(agent, x, y); a ValueError leaves the agent as it was
Move ==
    \E a \in AgentIds : \E c \in MoveTargets :
        LET moved == move(bombs, grid, agents[a], c[1], c[2])
        IN  /\ agents' = IF moved.raised THEN agents
                         ELSE [agents EXCEPT ![a] = moved.agent]
            /\ UNCHANGED <<grid, bombs, explosions, turn, running, boxes_left,
                           pc, exploding, actions, rays, late, asp>>

NextMove == Move

SpecMove == InitMove /\ [][NextMove]_vars

(* ---------------------------------------------------------------------- *)
(* One send_turn_state()/receive() of the AspAgent, in the first turn of a *)
(* game: update() has sent the turn state, ticked and propagated.          *)
(* ---------------------------------------------------------------------- *)
InitReceive ==
    /\ grid = Layout({})
    /\ bombs = << >>
    /\ agents = [a \in AgentIds |-> NewAgent(a, START_POSITIONS[a + 1])]
    /\ explosions = {}
    /\ turn = 0
    /\ running = TRUE
    /\ boxes_left = count_boxes_left(grid)
    /\ pc = "propagated"
    /\ exploding = << >>
    /\ actions = NoActions
    /\ rays = {}
    /\ late = 0
    /\ asp = NewAspAgent

CallerStep == SendTurnState \/ StartTimer \/ ReceiveLock \/ TimerCancel \/ ReceiveReturn

WorkerStep == WorkerLock \/ StartSync \/ WorkerDone

TimerStep == TimerExpire \/ Timeout

NextReceive == CallerStep \/ WorkerStep \/ TimerStep

SpecReceive == InitReceive /\ [][NextReceive]_vars

\* Every thread that can run gets to run; the timer runs out unless it is
\* cancelled first; only the solver is not bound to come back.
FairReceive ==
    /\ WF_vars(CallerStep)
    /\ WF_vars(WorkerLock)
    /\ WF_vars(WorkerDone)
    /\ WF_vars(TimerStep)

SpecReceiveLive == InitReceive /\ [][NextReceive]_vars /\ FairReceive

(* ---------------------------------------------------------------------- *)
(* A game in which every agent answers the same MOVE turn after turn: no    *)
(* bomb is ever placed, so the grid stays as it is and the game runs to     *)
(* MAX_TURNS.                                                               *)
(* ---------------------------------------------------------------------- *)
\* the cells that may hold a box; the corners the agents start from are floor
RepeatBoxCells ==
    {<<1, 0>>, <<1, 1>>, <<1, HEIGHT - 1>>, <<WIDTH - 2, 0>>, <<WIDTH - 1, 1>>}

\* every board with a box on some of these cells
RepeatLayouts == {Layout(boxes) : boxes \in (SUBSET RepeatBoxCells) \ {{}}}

\* agent 0 is sent to any cell of the grid, the other agent to the far corner
RepeatAnswers ==
    {acts \in [AgentIds -> {format_action(CmdMove, c[1], c[2]) : c \in Cells}] :
        \A a \in AgentIds \ {0} : acts[a] = format_action(CmdMove, 0, 0)}

\* Game.__init__, and the answers the agents are going to repeat
InitRepeat ==
    /\ grid \in RepeatLayouts
    /\ bombs = << >>
    /\ agents = [a \in AgentIds |-> NewAgent(a, START_POSITIONS[a + 1])]
    /\ explosions = {}
    /\ turn = 0
    /\ running = TRUE
    /\ boxes_left = count_boxes_left(grid)
    /\ pc = "start"
    /\ exploding = << >>
    /\ actions \in RepeatAnswers
    /\ rays = {}
    /\ late = 0
    /\ asp = NewAspAgent

\* every agent answers what it answered the turn before, then
\* process_agent_actions runs
RepeatActions ==
    /\ pc = "propagated"
    /\ LET r == process_agent_actions(bombs, agents, grid, actions)
       IN  /\ bombs' = r.bombs
           /\ agents' = r.agents
    /\ pc' = "acted"
    /\ UNCHANGED <<grid, explosions, turn, running, boxes_left, exploding,
                   actions, rays, late, asp>>

\* the tail of update(), the answers kept for the next turn
RepeatEndTurn ==
    /\ pc = "acted"
    /\ boxes_left' = count_boxes_left(grid)
    /\ turn' = turn + 1
    /\ running' = IF game_over(turn + 1, count_boxes_left(grid), agents)
                  THEN FALSE ELSE running
    /\ pc' = "start"
    /\ exploding' = << >>
    /\ rays' = {}
    /\ UNCHANGED <<grid, bombs, agents, explosions, actions, late, asp>>

NextRepeat ==
    \/ TickBombs
    \/ PropagateExplosions
    \/ RepeatActions
    \/ RepeatEndTurn

SpecRepeat == InitRepeat /\ [][NextRepeat]_vars

\* update() has asked the agents and processed their answers
Answered == pc = "propagated" /\ pc' = "acted"

\* The main loop calls update() while the game is running, and update() runs
\* to its end.
FairRepeat ==
    /\ WF_vars(TickBombs)
    /\ WF_vars(PropagateExplosions)
    /\ WF_pc(Answered)
    /\ WF_vars(RepeatEndTurn)

SpecRepeatLive == InitRepeat /\ [][NextRepeat]_vars /\ FairRepeat

(* ====================================================================== *)
(* Properties                                                              *)
(* ====================================================================== *)
AfterUpdate == pc = "start" /\ turn > 0

AnyDisqualified == \E a \in AgentIds : agents[a].disqualified

\* C1: after every call to update(), running is False exactly when
\* turn >= MAX_TURNS, or boxes_left = 0, or some agent is disqualified.
C1_RunningIffNoEndCondition ==
    AfterUpdate =>
        (running <=> ~(turn >= MAX_TURNS \/ boxes_left = 0 \/ AnyDisqualified))

\* a game ended by its last box being destroyed, before the last turn and with
\* nobody disqualified
C1_Witness ==
    /\ AfterUpdate
    /\ ~running
    /\ boxes_left = 0
    /\ turn < MAX_TURNS
    /\ ~AnyDisqualified

\* C2: every call to update() increases turn by exactly 1 and nothing else
\* changes it, and the game has ended (running = False) by the time turn
\* reaches MAX_TURNS: a running game has made fewer than MAX_TURNS calls.
C2_EndedWithinMaxTurns ==
    [][/\ (pc = "acted") => (turn' = turn + 1)
       /\ (pc # "acted") => (turn' = turn)
       /\ (pc' = "start" /\ turn' >= MAX_TURNS) => ~running'
       /\ running' => running]_vars

\* a game that lasted MAX_TURNS turns and was ended by the turn counter alone
C2_Witness ==
    /\ AfterUpdate
    /\ turn = MAX_TURNS
    /\ ~running
    /\ boxes_left > 0
    /\ ~AnyDisqualified

OwnedWithTimer(bs, a, t) ==
    Cardinality({i \in 1 .. Len(bs) : bs[i].owner_id = a /\ bs[i].timer = t})

\* C3: a bomb is created with timer LIFETIME; every call to tick_bombs takes
\* exactly 1 off the timer of every live bomb; a bomb whose timer is still
\* above 0 stays in the live list and is not returned, and its owner's bombs_left
\* is unchanged by it; a bomb whose timer reaches 0 is returned, once, with
\* timer 0, is removed from the live list, and gives its owner exactly 1
\* bombs_left.  A bomb left alone is therefore returned by the LIFETIME-th call.
C3_TickCountsDownAndReturnsOnce ==
    [][/\ (pc = "propagated" /\ pc' = "acted") =>
             \A i \in 1 .. Len(bombs') :
                 (i > Len(bombs)) => (bombs'[i].timer = LIFETIME)
       /\ (pc = "start" /\ pc' = "ticked") =>
             /\ \A i \in 1 .. Len(bombs) :
                   LET b == bombs[i]
                       ticked == [b EXCEPT !.timer = b.timer - 1]
                   IN  /\ b.timer >= 1
                       /\ (b.timer > 1) =>
                             /\ InSeq(ticked, bombs')
                             /\ ~InSeq(ticked, exploding')
                       /\ (b.timer = 1) =>
                             /\ InSeq(ticked, exploding')
                             /\ ~InSeq(ticked, bombs')
             /\ Len(bombs') + Len(exploding') = Len(bombs)
             /\ \A i \in 1 .. Len(exploding') : exploding'[i].timer = 0
             /\ \A a \in AgentIds :
                   agents'[a].bombs_left =
                       agents[a].bombs_left + OwnedWithTimer(bombs, a, 1)]_vars

\* tick_bombs has just returned a bomb, LIFETIME calls after the first turn at
\* the earliest; the bomb is off the live list and its owner has it back
C3_Witness ==
    /\ pc = "ticked"
    /\ turn >= LIFETIME
    /\ Len(exploding) = 1
    /\ exploding[1].timer = 0
    /\ ~(\E i \in 1 .. Len(bombs) : bombs[i].owner_id = exploding[1].owner_id)
    /\ agents[exploding[1].owner_id].bombs_left = 1
    /\ Len(bombs) = 1
    /\ bombs[1].timer > 0

(* ---------------------------------------------------------------------- *)
(* The propagation pass                                                    *)
(* ---------------------------------------------------------------------- *)
CellOf(b) == <<b.x, b.y>>

BombCells(bs) == {CellOf(bs[i]) : i \in 1 .. Len(bs)}

\* the cell i steps from cell c in direction d
Step(c, d, i) == <<c[1] + d[1] * i, c[2] + d[2] * i>>

InGrid(c) == in_bounds(c[1], c[2])

\* cell b lies on the straight line from a to c, strictly between them
StrictlyBetween(a, b, c) ==
    \/ /\ a[2] = b[2] /\ b[2] = c[2]
       /\ (a[1] < b[1] /\ b[1] < c[1]) \/ (c[1] < b[1] /\ b[1] < a[1])
    \/ /\ a[1] = b[1] /\ b[1] = c[1]
       /\ (a[2] < b[2] /\ b[2] < c[2]) \/ (c[2] < b[2] /\ b[2] < a[2])

Adjacent(a, b) == Abs(a[1] - b[1]) + Abs(a[2] - b[2]) = 1

\* the cells of the arm of range r from cell c in direction d on grid g: up to
\* and including the first box or the first cell of stoppers
Arm(g, stoppers, c, d, r) ==
    {Step(c, d, i) : i \in {k \in 1 .. r - 1 :
        /\ InGrid(Step(c, d, k))
        /\ \A j \in 1 .. k - 1 :
              g[Step(c, d, j)] # BOX /\ Step(c, d, j) \notin stoppers}}

\* C4: every live bomb on a cell reached by a ray of the pass is off the live
\* list when the pass ends, its cell and the arms of its own blast are in the
\* explosion set, and every agent's bombs_left grows by exactly the number of
\* its live bombs that were reached (1 for a bomb, however many rays reach it);
\* a live bomb no ray reached stays on the list as it was.
C4_ChainReaction ==
    [][(pc = "ticked" /\ pc' = "propagated") =>
          /\ \A i \in 1 .. Len(bombs) :
                LET b == bombs[i]
                IN  IF b.timer > 0 /\ \E r \in rays' : r.cell = CellOf(b)
                    THEN /\ \A k \in 1 .. Len(bombs') : CellOf(bombs'[k]) # CellOf(b)
                         /\ CellOf(b) \in explosions'
                         /\ \A k \in 1 .. Len(DIRECTIONS) :
                               Arm(grid, BombCells(bombs) \cup BombCells(exploding),
                                   CellOf(b), DIRECTIONS[k], b.range) \subseteq explosions'
                    ELSE InSeq(b, bombs')
          /\ \A a \in AgentIds :
                agents'[a].bombs_left = agents[a].bombs_left +
                    Cardinality({i \in 1 .. Len(bombs) :
                        /\ bombs[i].owner_id = a
                        /\ bombs[i].timer > 0
                        /\ \E r \in rays' : r.cell = CellOf(bombs[i])})]_vars

\* one bomb exploded by its timer, and its ray set off the other agent's live
\* bomb, which blasted too: no bomb is left and both agents have theirs back
C4_Witness ==
    /\ pc = "propagated"
    /\ Len(exploding) = 1
    /\ bombs = << >>
    /\ \E r \in rays : r.from # CellOf(exploding[1]) /\ r.owner # exploding[1].owner_id
    /\ \A a \in AgentIds : agents[a].bombs_left = INITIAL_BOMBS

\* C5: in the propagation pass of a turn no ray scorches a cell beyond a cell
\* that holds a bomb, whether the bomb is on the live list or is one of the
\* seed bombs tick_bombs has just returned.
C5_RayStopsAtEveryBomb ==
    [][(pc = "ticked" /\ pc' = "propagated") =>
          \A r \in rays' : \A c \in BombCells(bombs) \cup BombCells(exploding) :
              ~StrictlyBetween(r.from, c, r.cell)]_vars

\* C6: every box reached by a ray becomes floor, and every agent's
\* boxes_blown_up grows by exactly the number of boxes reached by a ray of one of
\* its bombs: 1 per box for every distinct owner, nothing for the others.  In
\* particular a box next to two seed bombs of different owners scores for both.
C6_EveryOwnerOfARayScores ==
    [][(pc = "ticked" /\ pc' = "propagated") =>
          /\ \A c \in Cells :
                (grid[c] = BOX /\ \E r \in rays' : r.cell = c) => grid'[c] = FLOOR
          /\ \A a \in AgentIds :
                agents'[a].boxes_blown_up = agents[a].boxes_blown_up +
                    Cardinality({c \in Cells :
                        grid[c] = BOX /\ \E r \in rays' : r.cell = c /\ r.owner = a})
          /\ \A c \in Cells : \A i, j \in 1 .. Len(exploding) :
                (/\ grid[c] = BOX
                 /\ exploding[i].owner_id # exploding[j].owner_id
                 /\ Adjacent(c, CellOf(exploding[i]))
                 /\ Adjacent(c, CellOf(exploding[j]))) =>
                    /\ grid'[c] = FLOOR
                    /\ \A a \in AgentIds :
                          agents'[a].boxes_blown_up >= agents[a].boxes_blown_up + 1]_vars

\* the only box of the grid was reached by a ray of each agent, and is gone:
\* both agents have scored 1
C6_Witness ==
    /\ pc = "propagated"
    /\ boxes_left = 1
    /\ count_boxes_left(grid) = 0
    /\ \E c \in Cells : \A a \in AgentIds : \E r \in rays : r.cell = c /\ r.owner = a
    /\ \A a \in AgentIds : agents[a].boxes_blown_up = 1

\* the 4-armed cross of range r around (x, y), cut at the edge of the grid
Cross(x, y, r) ==
    {c \in Cells : \/ c = <<x, y>>
                   \/ c[2] = y /\ c[1] # x /\ Abs(c[1] - x) < r
                   \/ c[1] = x /\ c[2] # y /\ Abs(c[2] - y) < r}

\* C7: on a grid with no box, a single exploding bomb and no other bomb set
\* the explosion set to exactly the cross of the bomb's range around its cell.
C7_OpenGridCross ==
    [][(/\ pc = "ticked" /\ pc' = "propagated"
        /\ count_boxes_left(grid) = 0
        /\ bombs = << >>
        /\ Len(exploding) = 1) =>
          explosions' = Cross(exploding[1].x, exploding[1].y, exploding[1].range)]_vars

\* a single bomb exploded at (0, 1) on an open grid: its arm to the right ends
\* RANGE - 1 cells away, short of the cell (RANGE, 1) of the grid
C7_Witness ==
    /\ pc = "propagated"
    /\ boxes_left = 0
    /\ bombs = << >>
    /\ Len(exploding) = 1
    /\ CellOf(exploding[1]) = <<0, 1>>
    /\ \A r \in rays : r.from = <<0, 1>>
    /\ <<RANGE, 1>> \in Cells
    /\ explosions = {<<0, 1>>, <<1, 1>>, <<2, 1>>, <<0, 0>>, <<0, 2>>}

\* C8: a box reached by a ray is scorched and destroyed and the ray scorches
\* nothing beyond it; a box no ray reached is still a box.  For a single bomb:
\* the first box on an arm is destroyed, and every cell beyond it on that arm is
\* outside the explosion set and is what it was, so a second box survives.
C8_BoxStopsRay ==
    [][(pc = "ticked" /\ pc' = "propagated") =>
          /\ \A r \in rays' :
                (grid[r.cell] = BOX) =>
                    /\ r.cell \in explosions'
                    /\ grid'[r.cell] = FLOOR
                    /\ \A q \in rays' :
                          ~(q.from = r.from /\ StrictlyBetween(r.from, r.cell, q.cell))
          /\ \A c \in Cells :
                (grid[c] = BOX /\ ~(\E r \in rays' : r.cell = c)) => grid'[c] = BOX
          /\ (Len(exploding) = 1 /\ bombs = << >>) =>
                \A k \in 1 .. Len(DIRECTIONS) : \A i \in 1 .. exploding[1].range - 1 :
                    LET c == CellOf(exploding[1])
                        d == DIRECTIONS[k]
                    IN  (/\ InGrid(Step(c, d, i))
                         /\ grid[Step(c, d, i)] = BOX
                         /\ \A j \in 1 .. i - 1 : grid[Step(c, d, j)] # BOX) =>
                            /\ grid'[Step(c, d, i)] = FLOOR
                            /\ Step(c, d, i) \in explosions'
                            /\ \A m \in i + 1 .. WIDTH + HEIGHT :
                                  InGrid(Step(c, d, m)) =>
                                      /\ Step(c, d, m) \notin explosions'
                                      /\ grid'[Step(c, d, m)] = grid[Step(c, d, m)]]_vars

\* a single bomb exploded at (0, 0) with boxes at (1, 0) and (2, 0): the first
\* is destroyed and scored, the second is untouched
C8_Witness ==
    /\ pc = "propagated"
    /\ Len(exploding) = 1
    /\ bombs = << >>
    /\ CellOf(exploding[1]) = <<0, 0>>
    /\ \A r \in rays : r.from = <<0, 0>>
    /\ boxes_left = count_boxes_left(grid) + 1
    /\ grid[<<1, 0>>] = FLOOR
    /\ <<1, 0>> \in explosions
    /\ grid[<<2, 0>>] = BOX
    /\ <<2, 0>> \notin explosions
    /\ agents[exploding[1].owner_id].boxes_blown_up = 1

(* ---------------------------------------------------------------------- *)
(* The action interpreter                                                  *)
(* ---------------------------------------------------------------------- *)
Acting == pc = "propagated" /\ pc' = "acted"

\* what process_agent_actions makes of the turn's answers with agent a's answer
\* replaced by answer
AnsweredInstead(a, answer) ==
    process_agent_actions(bombs, agents, grid, [actions' EXCEPT ![a] = answer])

\* C9: an agent whose answer is empty, has fewer than 3 tokens, has a
\* coordinate that is no integer, names a cell outside the grid, or has a command
\* other than MOVE and BOMB, is disqualified; an answer in another letter case,
\* and an answer followed by free text, leave the bombs and every agent exactly as
\* the plain answer does, but for the message stored on the agent.
C9_MalformedDisqualifies ==
    [][Acting =>
          \A a \in AgentIds :
              /\ (actions'[a] \in MalformedAnswers) => agents'[a].disqualified
              /\ \A plain \in PlainAnswers :
                    /\ (actions'[a] = lower_case(plain)) =>
                          /\ bombs' = AnsweredInstead(a, plain).bombs
                          /\ agents' = AnsweredInstead(a, plain).agents
                    /\ (actions'[a] = with_text(plain)) =>
                          /\ bombs' = AnsweredInstead(a, plain).bombs
                          /\ [agents' EXCEPT ![a].message = << >>] =
                                 AnsweredInstead(a, plain).agents]_vars

\* one agent answered "MOVE 0, 0" and is disqualified; the other answered a
\* well-formed action followed by free text, moved, and is not
C9_Witness ==
    /\ pc = "acted"
    /\ \E a \in AgentIds : \E b \in AgentIds :
          /\ actions[a] \in NonIntegerAnswers
          /\ agents[a].disqualified
          /\ actions[b] \in MessageAnswers
          /\ agents[b].state = MOVING
          /\ ~agents[b].disqualified

\* C10: an agent that answers a well-formed action is not disqualified by it,
\* whatever the grid and the bombs.
C10_WellFormedNeverDisqualifies ==
    [][Acting =>
          \A a \in AgentIds :
              (actions'[a] \in WellFormedAnswers /\ ~agents[a].disqualified) =>
                  ~agents'[a].disqualified]_vars

\* the bombs of the live list that agent a owns, in list order
OwnedBy(bs, a) == SelectSeq(bs, LAMBDA b : b.owner_id = a)

\* C11: an agent that process_agent_actions disqualifies for its action is
\* where it was, has the bombs_left it had, and has no bomb on the live list
\* that it did not have before.
C11_DisqualifyingActionChangesNothing ==
    [][Acting =>
          \A a \in AgentIds :
              (~agents[a].disqualified /\ agents'[a].disqualified) =>
                  /\ agents'[a].x = agents[a].x
                  /\ agents'[a].y = agents[a].y
                  /\ agents'[a].bombs_left = agents[a].bombs_left
                  /\ OwnedBy(bombs', a) = OwnedBy(bombs, a)]_vars

\* "BOMB x y" for the cells the answers name
BombAnswers == {format_action(CmdBomb, c[1], c[2]) : c \in ActTargets}

\* "MOVE x y" for "BOMB x y"
as_move(plain) == CmdMove \o SubSeq(plain, 5, Len(plain))

\* when agent a's action is processed, a bomb is on the cell a stands on: one of
\* the live list, or one an agent processed before a has just placed
CellTaken(a) ==
    \/ \E i \in 1 .. Len(bombs) : CellOf(bombs[i]) = <<agents[a].x, agents[a].y>>
    \/ \E i \in 1 .. Len(bombs') :
          /\ CellOf(bombs'[i]) = <<agents[a].x, agents[a].y>>
          /\ bombs'[i].owner_id < a

\* the bomb agent a places where it stands
PlacedBy(a) ==
    [owner_id |-> a, x |-> agents[a].x, y |-> agents[a].y, timer |-> 8, range |-> 3]

\* C12: "BOMB x y" from an agent with bombs_left > 0 on a cell with no bomb
\* adds exactly one bomb, at the cell the agent stood on, owned by the agent,
\* with timer 8 and range 3, takes exactly 1 off bombs_left, and moves the
\* agent exactly as "MOVE x y" does.
C12_BombPlacesThenMoves ==
    [][Acting =>
          \A a \in AgentIds :
              (/\ actions'[a] \in BombAnswers
               /\ agents[a].bombs_left > 0
               /\ ~CellTaken(a)) =>
                  /\ OwnedBy(bombs', a) = OwnedBy(bombs, a) \o <<PlacedBy(a)>>
                  /\ Cardinality({i \in 1 .. Len(bombs') :
                         CellOf(bombs'[i]) = CellOf(PlacedBy(a))}) = 1
                  /\ agents'[a].bombs_left = agents[a].bombs_left - 1
                  /\ [agents'[a] EXCEPT !.bombs_left = @ + 1] =
                         AnsweredInstead(a, as_move(actions'[a])).agents[a]]_vars

\* an agent answered "BOMB 1 1" from (0, 0): its bomb is at (0, 0), it has no
\* bomb left, and it has moved off the cell
C12_Witness ==
    /\ pc = "acted"
    /\ \E a \in AgentIds :
          /\ actions[a] = format_action(CmdBomb, 1, 1)
          /\ OwnedBy(bombs, a) = <<[owner_id |-> a, x |-> 0, y |-> 0,
                                    timer |-> 8, range |-> 3]>>
          /\ agents[a].bombs_left = 0
          /\ agents[a].state = MOVING
          /\ <<agents[a].x, agents[a].y>> # <<0, 0>>
          /\ ~agents[a].disqualified

\* C13: "BOMB x y" from an agent with bombs_left = 0, or on a cell that holds
\* a bomb, places no bomb, leaves bombs_left as it is, does not disqualify the
\* agent, and moves the agent exactly as "MOVE x y" does.
C13_BombWithoutPlacementOnlyMoves ==
    [][Acting =>
          \A a \in AgentIds :
              (/\ actions'[a] \in BombAnswers
               /\ ~agents[a].disqualified
               /\ agents[a].bombs_left = 0 \/ CellTaken(a)) =>
                  /\ OwnedBy(bombs', a) = OwnedBy(bombs, a)
                  /\ agents'[a].bombs_left = agents[a].bombs_left
                  /\ ~agents'[a].disqualified
                  /\ agents'[a] = AnsweredInstead(a, as_move(actions'[a])).agents[a]]_vars

(* ---------------------------------------------------------------------- *)
(* Movement                                                                *)
(* ---------------------------------------------------------------------- *)
\* walkable is True exactly for the cells inside the grid that are floor and
\* hold no bomb with a timer below 8, for every (x, y) in and around the grid
WalkableAsSpecified(bs, g) ==
    \A x \in -1 .. WIDTH : \A y \in -1 .. HEIGHT :
        walkable(bs, g, x, y) <=>
            /\ 0 <= x /\ x < WIDTH /\ 0 <= y /\ y < HEIGHT
            /\ g[<<x, y>>] = FLOOR
            /\ ~(\E i \in 1 .. Len(bs) : bs[i].x = x /\ bs[i].y = y /\ bs[i].timer < 8)

\* C14: walkable(x, y) is True exactly when (x, y) is inside the grid, is floor
\* and holds no bomb with timer < LIFETIME; the cell of a bomb whose timer is
\* still LIFETIME is walkable, and is not once tick_bombs has run.
C14_WalkableCells ==
    [][/\ WalkableAsSpecified(bombs, grid)
       /\ WalkableAsSpecified(bombs', grid')
       /\ (pc = "start" /\ pc' = "ticked") =>
             \A i \in 1 .. Len(bombs) :
                 (bombs[i].timer = 8) =>
                     /\ walkable(bombs, grid, bombs[i].x, bombs[i].y)
                     /\ ~walkable(bombs', grid', bombs[i].x, bombs[i].y)]_vars

\* tick_bombs has run once on a bomb placed in the turn before: the agent that
\* placed it still stands on its cell, which is floor and no longer walkable
C14_Witness ==
    /\ pc = "ticked"
    /\ \E i \in 1 .. Len(bombs) :
          /\ bombs[i].timer = LIFETIME - 1
          /\ agents[bombs[i].owner_id].x = bombs[i].x
          /\ agents[bombs[i].owner_id].y = bombs[i].y
          /\ grid[CellOf(bombs[i])] = FLOOR
          /\ ~walkable(bombs, grid, bombs[i].x, bombs[i].y)

Unreachable == WIDTH * HEIGHT

\* the walkable cells
Free(bs, g) == {c \in Cells : walkable(bs, g, c[1], c[2])}

\* the cells outside near that lie next to a walkable cell of edge
Beyond(free, near, edge) ==
    ({<<p[1] + e[1], p[2] + e[2]>> :
         p \in edge \cap free, e \in {<<0, -1>>, <<1, 0>>, <<0, 1>>, <<-1, 0>>}}
     \cap Cells) \ near

RECURSIVE Spread(_, _, _, _, _)
\* near holds the cells from which dst is at most n steps away, every step
\* entering a walkable cell next to the one before, d their numbers of steps
\* and more the cells one step further: d completed for the cells further away
Spread(free, near, more, n, d) ==
    IF more = {} THEN d
    ELSE Spread(free, near \cup more, Beyond(free, near \cup more, more), n + 1,
                [c \in Cells |-> IF c \in more THEN n + 1 ELSE d[c]])

\* for every cell the length of a shortest walkable way from it to dst,
\* Unreachable when there is none
Distances(bs, g, dst) ==
    Spread(Free(bs, g), {dst}, Beyond(Free(bs, g), {dst}, {dst}), 0,
           [c \in Cells |-> IF c = dst THEN 0 ELSE Unreachable])

\* path() called as move() calls it, with (row, col) = (y, x); the answer as
\* an (x, y) cell, or None
PathStep(bs, g, src, dst) ==
    LET step == path(bs, g, <<src[2], src[1]>>, <<dst[2], dst[1]>>)
    IN  IF step = None THEN None ELSE <<step[2], step[1]>>

\* step is what the claim asks of path(src, dst), d being the distances to dst
ShortestStep(bs, g, src, dst, step, d) ==
    /\ (src # dst /\ d[src] < Unreachable) =>
          /\ step # None
          /\ Adjacent(step, src)
          /\ walkable(bs, g, step[1], step[2])
          /\ d[step] = d[src] - 1
    /\ (src = dst) => step = None
    /\ ~walkable(bs, g, dst[1], dst[2]) => step = None
    /\ (d[src] = Unreachable) => step = None

\* C15: path(src, dst) returns, when src # dst and dst can be reached from src
\* through walkable cells, a walkable cell next to src whose shortest walkable
\* distance to dst is one less than that of src; it returns None when
\* src = dst, when dst is not walkable and when there is no walkable way.
C15_PathIsShortestStep ==
    \A dst \in PathCells : \A a \in AgentIds :
        ShortestStep(bombs, grid, <<agents[a].x, agents[a].y>>, dst,
                     PathStep(bombs, grid, <<agents[a].x, agents[a].y>>, dst),
                     Distances(bombs, grid, dst))

\* an agent has moved, and from where it stands one cell takes a way round a
\* wall, one walkable cell cannot be reached and one cell is not walkable
C15_Witness ==
    \E a \in AgentIds :
        LET src == <<agents[a].x, agents[a].y>>
        IN  /\ agents[a].state = MOVING
            /\ src # START_POSITIONS[a + 1]
            /\ \E dst \in Cells :
                  /\ PathStep(bombs, grid, src, dst) # None
                  /\ Distances(bombs, grid, dst)[src] >
                        Abs(src[1] - dst[1]) + Abs(src[2] - dst[2])
            /\ \E dst \in Cells :
                  /\ walkable(bombs, grid, dst[1], dst[2])
                  /\ dst # src
                  /\ PathStep(bombs, grid, src, dst) = None
            /\ \E dst \in Cells : grid[dst] = BOX

\* up, right, down, left as (dx, dy)
UpRightDownLeft == <<  <<0, -1>>, <<1, 0>>, <<0, 1>>, <<-1, 0>>  >>

\* the neighbour of src in direction k lies on a shortest way to the cell d
\* gives the distances to
OnShortestWay(bs, g, src, d, k) ==
    LET n == Step(src, UpRightDownLeft[k], 1)
    IN  /\ InGrid(n)
        /\ walkable(bs, g, n[1], n[2])
        /\ d[n] = d[src] - 1

\* the first step of the way a breadth-first search finds that visits the
\* neighbours in the order up, right, down, left: the first neighbour in that
\* order that lies on a shortest way
FirstOnShortestWay(bs, g, src, d) ==
    LET k == CHOOSE i \in 1 .. 4 :
                 /\ OnShortestWay(bs, g, src, d, i)
                 /\ \A j \in 1 .. (i - 1) : ~OnShortestWay(bs, g, src, d, j)
    IN  Step(src, UpRightDownLeft[k], 1)

\* C16: among several shortest ways path() returns the step of the one found
\* by visiting the neighbours in the order up, right, down, left as (dx, dy),
\* the order move() uses for its substitution; from (0, 0) towards (1, 1) on
\* an empty grid the step is (1, 0).
C16_PathVisitsUpRightDownLeft ==
    \A dst \in PathCells : \A a \in AgentIds :
        LET src  == <<agents[a].x, agents[a].y>>
            step == PathStep(bombs, grid, src, dst)
        IN  /\ step # None =>
                  step = FirstOnShortestWay(bombs, grid, src,
                                            Distances(bombs, grid, dst))
            /\ (src = <<0, 0>> /\ dst = <<1, 1>> /\ bombs = << >>
                  /\ grid = Layout({})) => step = <<1, 0>>

\* the walkable neighbour of cell c closest to pos in Manhattan distance, the
\* first such in the order up, right, down, left
Substitute(bs, g, pos, c) ==
    LET n(k)    == Step(c, UpRightDownLeft[k], 1)
        open(k) == InGrid(n(k)) /\ walkable(bs, g, n(k)[1], n(k)[2])
        far(k)  == Abs(pos[1] - n(k)[1]) + Abs(pos[2] - n(k)[2])
        k == CHOOSE i \in 1 .. 4 :
                 /\ open(i)
                 /\ \A j \in 1 .. 4 : open(j) => far(i) <= far(j)
                 /\ \A j \in 1 .. (i - 1) : open(j) => far(j) > far(i)
    IN  n(k)

\* agent a answered MOVE or BOMB with target c, which is not walkable and has
\* a walkable neighbour
Fallback(a, c) ==
    /\ actions'[a] \in {format_action(cmd, c[1], c[2]) : cmd \in {CmdMove, CmdBomb}}
    /\ ~walkable(bombs, grid, c[1], c[2])
    /\ \E k \in 1 .. 4 :
          /\ InGrid(Step(c, UpRightDownLeft[k], 1))
          /\ walkable(bombs, grid, Step(c, UpRightDownLeft[k], 1)[1],
                      Step(c, UpRightDownLeft[k], 1)[2])

\* agent a has taken one shortest-path step towards the cell d gives the
\* distances to
SteppedTowards(a, d) ==
    /\ Adjacent(<<agents'[a].x, agents'[a].y>>, <<agents[a].x, agents[a].y>>)
    /\ walkable(bombs, grid, agents'[a].x, agents'[a].y)
    /\ d[<<agents'[a].x, agents'[a].y>>] = d[<<agents[a].x, agents[a].y>>] - 1
    /\ agents'[a].state = MOVING

\* agent a has stayed where it was, idle
Stayed(a) ==
    /\ agents'[a].x = agents[a].x
    /\ agents'[a].y = agents[a].y
    /\ agents'[a].state = IDLE

\* what move() does with the target cell sub for agent a
MovedTo(a, sub, d) ==
    IF d[<<agents[a].x, agents[a].y>>] \in 1 .. (Unreachable - 1)
    THEN SteppedTowards(a, d)
    ELSE Stayed(a)

\* C17 as stated: when the target is not walkable and one of its 4 neighbours
\* is, the target is replaced by the walkable neighbour closest to the agent in
\* Manhattan distance, the first in the order up, right, down, left among equals,
\* and the agent takes one shortest-path step towards that cell.
C17_FallbackAlwaysSteps ==
    [][Acting =>
          \A a \in AgentIds : \A c \in ActTargets :
              Fallback(a, c) =>
                  SteppedTowards(a, Distances(bombs, grid,
                      Substitute(bombs, grid, <<agents[a].x, agents[a].y>>, c)))]_vars

\* C17, amended: the substitution is made when the target is not the agent's own
\* cell; the agent then ends exactly where "MOVE" to the substituted cell takes
\* it: one shortest-path step towards it when the agent is not on it and a
\* walkable way to it exists, otherwise where it was, idle.
C17_FallbackSubstitution ==
    [][Acting =>
          \A a \in AgentIds : \A c \in ActTargets :
              Fallback(a, c) =>
                  IF c = <<agents[a].x, agents[a].y>> THEN Stayed(a)
                  ELSE /\ MovedTo(a, Substitute(bombs, grid, <<agents[a].x, agents[a].y>>, c),
                                  Distances(bombs, grid,
                                      Substitute(bombs, grid,
                                                 <<agents[a].x, agents[a].y>>, c)))
                       /\ LET same == AnsweredInstead(a, format_action(CmdMove,
                                  Substitute(bombs, grid, <<agents[a].x, agents[a].y>>, c)[1],
                                  Substitute(bombs, grid, <<agents[a].x, agents[a].y>>, c)[2]))
                          IN  /\ agents'[a].x = same.agents[a].x
                              /\ agents'[a].y = same.agents[a].y
                              /\ agents'[a].state = same.agents[a].state]_vars

\* agent 0 answered "MOVE 2 0" with a box on (2, 0): it stands on (2, 1), which
\* only (1, 1) is one step away from among the cells it starts on; from (1, 1)
\* the neighbours (2, 1) below the box and (1, 0) left of it are equally close
C17_Witness ==
    /\ pc = "acted"
    /\ actions[0] = format_action(CmdMove, 2, 0)
    /\ grid[<<2, 0>>] = BOX
    /\ agents[0].x = 2 /\ agents[0].y = 1
    /\ agents[0].state = MOVING

(* ---------------------------------------------------------------------- *)
(* The winners                                                             *)
(* ---------------------------------------------------------------------- *)
Qualified == {a \in AgentIds : ~agents[a].disqualified}

\* the qualified agents no qualified agent has a higher score than
TopQualified ==
    {a \in Qualified :
        \A b \in Qualified : agents[b].boxes_blown_up <= agents[a].boxes_blown_up}

\* C18: get_winners() returns exactly the non-disqualified agents whose score is
\* the maximum among the non-disqualified agents: one agent when the top score
\* is unique, all tied agents on a draw, the empty list when every agent is
\* disqualified; a disqualified agent is never returned, whatever its score.
C18_WinnersAreTopQualified ==
    LET winners == get_winners(agents)
        ids     == {winners[i].id : i \in 1 .. Len(winners)}
    IN  /\ ids = TopQualified
        /\ Len(winners) = Cardinality(TopQualified)
        /\ \A i \in 1 .. Len(winners) : winners[i] = agents[winners[i].id]
        /\ (Qualified = {}) => winners = << >>
        /\ \A a \in Qualified :
              (\A b \in Qualified \ {a} :
                  agents[b].boxes_blown_up < agents[a].boxes_blown_up)
              => winners = <<agents[a]>>
        /\ \A a \in AgentIds : agents[a].disqualified => a \notin ids

\* a disqualified agent has destroyed more boxes than the other agent, who is
\* the only winner
C18_Witness ==
    \E a \in AgentIds : \E b \in AgentIds :
        /\ agents[a].disqualified
        /\ ~agents[b].disqualified
        /\ agents[a].boxes_blown_up > agents[b].boxes_blown_up
        /\ get_winners(agents) = <<agents[b]>>

(* ---------------------------------------------------------------------- *)
(* Disqualification in the game                                            *)
(* ---------------------------------------------------------------------- *)
\* the answers of the game that are malformed or empty: "" and "DIE"
BothMalformed(acts) == \A a \in AgentIds : acts[a] \in {NoAnswer, Garbage}

AtStart(ags) ==
    \A a \in AgentIds : <<ags[a].x, ags[a].y>> = START_POSITIONS[a + 1]

\* C19: when both agents of a 2-agent game answer the first turn with malformed
\* or empty input, the first update() disqualifies both, places no bomb, moves
\* no agent, leaves running False with turn = 1, and get_winners() is then empty.
C19_BothMalformedOnFirstTurn ==
    [][/\ (Acting /\ turn = 0 /\ BothMalformed(actions')) =>
             /\ \A a \in AgentIds : agents'[a].disqualified
             /\ bombs' = << >>
             /\ AtStart(agents')
       /\ (pc = "acted" /\ turn = 0 /\ BothMalformed(actions)) =>
             /\ pc' = "start"
             /\ running' = FALSE
             /\ turn' = 1
             /\ \A a \in AgentIds : agents'[a].disqualified
             /\ bombs' = << >>
             /\ AtStart(agents')
             /\ get_winners(agents') = << >>]_vars

\* the first update() has returned with both agents disqualified: the game is
\* over at turn 1 with no bomb, the agents on their corners and no winner
C19_Witness ==
    /\ pc = "start"
    /\ turn = 1
    /\ ~running
    /\ NumAgents = 2
    /\ \A a \in AgentIds : agents[a].disqualified
    /\ bombs = << >>
    /\ AtStart(agents)
    /\ get_winners(agents) = << >>
\* C20: once an agent is disqualified, no step of the game (tick_bombs,
\* propagate_explosions, process_agent_actions with move, the tail of update)
\* clears the flag, also when the agent later submits a valid action.
C20_DisqualificationIsPermanent ==
    [][\A a \in AgentIds : agents[a].disqualified => agents'[a].disqualified]_vars

\* update() was called again after the end of the game: an agent answered
\* "MOVE 0 1", has moved, and is disqualified all the same
C20_Witness ==
    /\ pc = "acted"
    /\ late > 0
    /\ \E a \in AgentIds :
          /\ actions[a] = format_action(CmdMove, 0, 1)
          /\ agents[a].state = MOVING
          /\ agents[a].disqualified
(* ---------------------------------------------------------------------- *)
(* Invariants of the game                                                  *)
(* ---------------------------------------------------------------------- *)
\* C21: in every state reached by update() calls from the initial state, where
\* every agent has capacity 1, every agent's bombs_left is 0 or 1: never
\* negative, never above the starting capacity, also after a chain reaction.
C21_BombsLeftZeroOrOne ==
    \A a \in AgentIds :
        /\ agents[a].bombs_left \in {0, 1}
        /\ agents[a].bombs_left >= 0
        /\ agents[a].bombs_left <= INITIAL_BOMBS

\* a propagation pass has just set off a bomb that was not due (a ray starts
\* from a cell that held no bomb returned by tick_bombs), and its owner has
\* exactly its one bomb back
C21_Witness ==
    /\ pc = "propagated"
    /\ \E r \in rays :
          /\ r.from \notin BombCells(exploding)
          /\ agents[r.owner].bombs_left = 1
          /\ OwnedCount(bombs, r.owner) = 0
\* C22: every bomb's timer is within 0 .. 8 at all times, and after every
\* update() no bomb with timer 0 is on the live list: every bomb shown to an
\* agent at the start of a turn has 1 <= timer <= 8.
C22_TimerWithinLifetime ==
    /\ \A i \in 1 .. Len(bombs) : bombs[i].timer \in 0 .. 8
    /\ \A i \in 1 .. Len(exploding) : exploding[i].timer \in 0 .. 8
    /\ (pc = "start") =>
          \A i \in 1 .. Len(bombs) : 1 <= bombs[i].timer /\ bombs[i].timer <= 8

\* an update() has returned with a bomb placed in it and a bomb about to explode
C22_Witness ==
    /\ AfterUpdate
    /\ \E i \in 1 .. Len(bombs) : bombs[i].timer = LIFETIME
    /\ \E i \in 1 .. Len(bombs) : bombs[i].timer = 1
Propagating == pc = "ticked" /\ pc' = "propagated"

\* the cells of the bombs that detonate in the pass: those tick_bombs returned
\* and the live bombs the pass takes off the list
Detonated ==
    BombCells(exploding) \cup
    {CellOf(bombs[i]) : i \in {k \in 1 .. Len(bombs) : ~InSeq(bombs[k], bombs')}}

\* the centre c and the four arms of range RANGE from it, each up to and
\* including the first box or the first cell of stoppers
BlastCells(c, stoppers) ==
    {c} \cup UNION {Arm(grid, stoppers, c, DIRECTIONS[k], RANGE) :
                       k \in 1 .. Len(DIRECTIONS)}

\* C23: the explosion set is a snapshot of the turn: after every update() it is
\* exactly the set of cells scorched by the bombs that detonated in that update
\* (by timer or by chain), holds no cell of an earlier turn, and is empty when no
\* bomb detonated.
C23_ExplosionsAreASnapshot ==
    [][/\ Propagating =>
             /\ explosions' = Detonated \cup {r.cell : r \in rays'}
             /\ \A r \in rays' : r.from \in Detonated
             /\ explosions' \subseteq UNION {BlastCells(c, {}) : c \in Detonated}
             /\ UNION {BlastCells(c, BombCells(bombs) \cup BombCells(exploding)) :
                          c \in Detonated} \subseteq explosions'
             /\ (Detonated = {}) => explosions' = {}
       /\ ~Propagating => explosions' = explosions]_vars

\* an update() has returned in which no bomb detonated, after one in which a
\* bomb destroyed a box: no cell is on fire
C23_Witness ==
    /\ AfterUpdate
    /\ explosions = {}
    /\ \E a \in AgentIds : agents[a].boxes_blown_up > 0
BoxCells(g) == {c \in Cells : g[c] = "0"}

\* C24: the grid only loses boxes: a floor cell never becomes a box; a box
\* becomes floor only in propagate_explosions and only when a ray of that pass
\* reached it; boxes_left never grows, and after each update() it is the number
\* of box cells of the grid.
C24_GridOnlyLosesBoxes ==
    [][/\ \A c \in Cells : (grid[c] = ".") => grid'[c] = "."
       /\ \A c \in Cells :
             (grid[c] = "0" /\ grid'[c] # "0") =>
                 /\ Propagating
                 /\ grid'[c] = "."
                 /\ \E r \in rays' : r.cell = c
       /\ boxes_left' <= boxes_left
       /\ (pc = "start") => boxes_left = Cardinality(BoxCells(grid))
       /\ (pc' = "start") => boxes_left' = Cardinality(BoxCells(grid'))]_vars

\* an update() has returned after a box of the layout was destroyed:
\* boxes_left counts the boxes that remain
C24_Witness ==
    /\ AfterUpdate
    /\ \E c \in Cells : grid[c] = FLOOR /\ \A g \in LAYOUTS : g[c] = BOX
    /\ BoxCells(grid) # {}
    /\ boxes_left = Cardinality(BoxCells(grid))
\* the boxes destroyed on the step that a ray of a bomb of agent a reached
DestroyedBy(a) ==
    {c \in Cells :
        /\ grid[c] = BOX
        /\ grid'[c] = FLOOR
        /\ \E r \in rays' : r.cell = c /\ r.owner = a}

\* C25: an agent's boxes_blown_up never decreases, changes only during
\* propagate_explosions, and in one pass grows by exactly the number of boxes
\* destroyed in the pass that a ray of a bomb of that agent reached.
C25_ScoreCountsOwnBoxes ==
    [][\A a \in AgentIds :
          /\ agents'[a].boxes_blown_up >= agents[a].boxes_blown_up
          /\ (agents'[a].boxes_blown_up # agents[a].boxes_blown_up) => Propagating
          /\ Propagating =>
                agents'[a].boxes_blown_up =
                    agents[a].boxes_blown_up + Cardinality(DestroyedBy(a))]_vars

\* a pass has just destroyed a box with a ray of one agent's bomb: that agent
\* has a point and the other agent has none
C25_Witness ==
    /\ pc = "propagated"
    /\ \E a \in AgentIds : \E r \in rays :
          /\ r.owner = a
          /\ grid[r.cell] = FLOOR
          /\ \A g \in LAYOUTS : g[r.cell] = BOX
          /\ agents[a].boxes_blown_up = 1
          /\ \A b \in AgentIds \ {a} : agents[b].boxes_blown_up = 0
(* ---------------------------------------------------------------------- *)
(* Where the agents stand                                                  *)
(* ---------------------------------------------------------------------- *)
Corners == {<<0, 0>>, <<WIDTH - 1, HEIGHT - 1>>, <<WIDTH - 1, 0>>, <<0, HEIGHT - 1>>}

PositionOf(ags, a) == <<ags[a].x, ags[a].y>>

\* cell c holds a bomb of the list placed in an earlier turn
AgedBombAt(bs, c) ==
    \E i \in 1 .. Len(bs) : CellOf(bs[i]) = c /\ bs[i].timer < LIFETIME

\* C26 as stated: at every turn boundary each agent's position is a walkable
\* cell or one of the starting corners.
C26_PositionWalkableOrCorner ==
    (pc = "start") =>
        \A a \in AgentIds :
            \/ walkable(bombs, grid, agents[a].x, agents[a].y)
            \/ PositionOf(agents, a) \in Corners

\* C26, amended: each agent's position is always a floor cell inside the grid;
\* it is walkable unless it holds a bomb placed in an earlier turn, and then the
\* agent stood on that cell already before the step: it has not left the cell
\* since the bomb was new.
C26_PositionOnFloor ==
    [][\A a \in AgentIds :
          /\ InGrid(PositionOf(agents', a))
          /\ grid'[PositionOf(agents', a)] = FLOOR
          /\ \/ walkable(bombs', grid', agents'[a].x, agents'[a].y)
             \/ /\ AgedBombAt(bombs', PositionOf(agents', a))
                /\ PositionOf(agents, a) = PositionOf(agents', a)]_vars

\* an update() has returned with an agent standing, away from the corners, on a
\* bomb placed in an earlier turn: a floor cell that is not walkable
C26_Witness ==
    /\ AfterUpdate
    /\ \E a \in AgentIds :
          /\ PositionOf(agents, a) \notin Corners
          /\ grid[PositionOf(agents, a)] = FLOOR
          /\ AgedBombAt(bombs, PositionOf(agents, a))
          /\ ~walkable(bombs, grid, agents[a].x, agents[a].y)


(* ---------------------------------------------------------------------- *)
(* C27..C28: the AspAgent's receive()                                      *)
(* ---------------------------------------------------------------------- *)
\* the solver's answer holds a move(X, Y) or placeBomb(X, Y) atom
HasActionAtom == asp.answer_sets.ready /\ ~asp.answer_sets.errors
                 /\ asp.answer_sets.atoms # << >>

\* "MOVE X Y" for a move atom, "BOMB X Y" for a placeBomb atom
ActionOfAtom(atom) ==
    IF atom.pred = "move" THEN <<"M", "O", "V", "E">> \o <<" ">> \o int_str(atom.x)
                               \o <<" ">> \o int_str(atom.y)
    ELSE <<"B", "O", "M", "B">> \o <<" ">> \o int_str(atom.x)
         \o <<" ">> \o int_str(atom.y)

Returned == asp.caller = "done"

\* C27: when the worker has stored the solver's answer and cleared is_running
\* before the response budget ran out, and the answer holds a move or
\* placeBomb atom, the agent's disqualified flag is and stays False and
\* receive() returns "MOVE X Y" / "BOMB X Y" for that atom, under every
\* interleaving of caller, worker and timer.
C27_InTimeAnswerIsReturned ==
    (asp.in_time /\ HasActionAtom) =>
        /\ ~agents[0].disqualified
        /\ Returned => asp.ret = ActionOfAtom(asp.answer_sets.atoms[1])

\* the timer fires while the solver is still running and the caller is parked
\* in run_condition.wait()
TimeoutOnWaitingCaller ==
    /\ asp.timer = "fired" /\ asp'.timer = "done"
    /\ asp.is_running /\ asp.caller = "waiting"

\* C28: receive() always returns.  When the timer fires before the solver has
\* finished, the waiting caller is woken, the disqualified flag is True from
\* then on and receive() returns ""; the solver is started at most once (no
\* retry); and every call of receive() comes back, also when the solver never
\* does.
C28_ReceiveAlwaysReturns ==
    /\ [](asp.timed_out => agents[0].disqualified)
    /\ []((asp.timed_out /\ Returned) => asp.ret = << >>)
    /\ [](asp.solves <= 1)
    /\ [][TimeoutOnWaitingCaller => asp'.caller = "woken"]_vars
    /\ (asp.caller = "receive" ~> Returned)

\* the timer fired on a running solver, the solver is still running, and
\* receive() has returned
C28_Witness ==
    /\ asp.timed_out /\ Returned
    /\ asp.worker = "solving" /\ asp.is_running
    /\ asp.ret = << >> /\ agents[0].disqualified

(* ---------------------------------------------------------------------- *)
(* C29..C30                                                                *)
(* ---------------------------------------------------------------------- *)
\* agent a as it would be had the action changed nothing but the flag
OnlyFlagged(agent) == [agent EXCEPT !.disqualified = TRUE]

\* C29: an action that disqualifies its agent changes nothing else: the agent's
\* record, its stored message included, is the one it had with the flag set,
\* the grid is the same, and so are the agent's bombs on the live list, also
\* for a malformed action with a fourth token.
C29_DisqualifyingActionOnlySetsFlag ==
    [][Acting =>
          \A a \in AgentIds :
              (~agents[a].disqualified /\ agents'[a].disqualified) =>
                  /\ agents'[a].message = agents[a].message
                  /\ agents'[a] = OnlyFlagged(agents[a])
                  /\ grid' = grid
                  /\ OwnedBy(bombs', a) = OwnedBy(bombs, a)]_vars

\* the bombs on cell c that were placed in an earlier turn
EarlierBombsAt(bs, c) ==
    {i \in 1..Len(bs) : CellOf(bs[i]) = c /\ bs[i].timer < LIFETIME}

\* C30: the cell an agent steps into when the actions of a turn are processed
\* holds no bomb placed in an earlier turn (timer < LIFETIME); a bomb placed
\* in the current turn does not keep an agent out.
C30_NoStepOntoEarlierBomb ==
    [][Acting =>
          \A a \in AgentIds :
              PositionOf(agents', a) # PositionOf(agents, a) =>
                  /\ EarlierBombsAt(bombs', PositionOf(agents', a)) = {}
                  /\ EarlierBombsAt(bombs, PositionOf(agents', a)) = {}]_vars

\* agent 1 has stepped into the cell where agent 0, processed before it, has
\* placed a bomb in this turn, while another bomb of an earlier turn is live
C30_Witness ==
    /\ pc = "acted"
    /\ agents[1].state = MOVING
    /\ \E i \in 1..Len(bombs) :
          /\ bombs[i].owner_id = 0 /\ bombs[i].timer = LIFETIME
          /\ CellOf(bombs[i]) = PositionOf(agents, 1)
    /\ \E i \in 1..Len(bombs) : bombs[i].timer < LIFETIME

(* ---------------------------------------------------------------------- *)
(* C31..C32: the order of the steps inside update()                        *)
(* ---------------------------------------------------------------------- *)
\* the turn in which a bomb with this timer was placed, read off the timer:
\* t is Game.turn, and at position p of update() the bombs have been ticked
\* LIFETIME - timer times, the tick of the running update included; at "start"
\* Game.turn has already been incremented
PlacedIn(timer, t, p) ==
    IF p = "start" THEN t - 1 - (LIFETIME - timer) ELSE t - (LIFETIME - timer)

\* who placed a bomb where, and in which turn
Placements(bs, t, p) ==
    {[owner_id |-> bs[i].owner_id, cell |-> CellOf(bs[i]),
      turn |-> PlacedIn(bs[i].timer, t, p)] : i \in 1 .. Len(bs)}

Ticking == pc = "start" /\ pc' = "ticked"

Ending == pc = "acted" /\ pc' = "start"

\* "BOMB x y"
IsBombAnswer(action) == Len(action) > 4 /\ SubSeq(action, 1, 4) = CmdBomb

\* C31: inside update() the bombs are ticked and the explosions resolved
\* before the actions of the turn are applied.  A bomb placed in turn t leaves
\* the live list at the tick of the update of turn t + LIFETIME, unless a chain
\* reaction has taken it before; its owner then has bombs_left = 1 when its
\* action of that turn is processed, and places a bomb again if it answers
\* BOMB.  The actions see only bombs of earlier turns, already ticked; the
\* bombs they place carry the current turn and are neither ticked nor
\* detonated before the next update.
C31_TickAndBlastBeforeActions ==
    [][/\ Ticking =>
             /\ Placements(bombs', turn', pc') \subseteq Placements(bombs, turn, pc)
             /\ \A b \in Placements(bombs, turn, pc) :
                   (b \notin Placements(bombs', turn', pc')) <=> (b.turn = turn - LIFETIME)
             /\ \A i \in 1 .. Len(exploding') :
                   /\ exploding'[i].timer = 0
                   /\ PlacedIn(0, turn', pc') = turn - LIFETIME
       /\ Propagating =>
             /\ Placements(bombs', turn', pc') \subseteq Placements(bombs, turn, pc)
             /\ \A b \in Placements(bombs, turn, pc) :
                   b.turn > turn - LIFETIME /\ b.turn < turn
       /\ Acting =>
             /\ \A b \in Placements(bombs, turn, pc) : b.turn < turn
             /\ Placements(bombs, turn, pc) \subseteq Placements(bombs', turn', pc')
             /\ \A b \in Placements(bombs', turn', pc') \ Placements(bombs, turn, pc) :
                   b.turn = turn
             /\ \A a \in AgentIds :
                   OwnedCount(exploding, a) > 0 =>
                       /\ agents[a].bombs_left = 1
                       /\ (IsBombAnswer(actions'[a]) /\ ~CellTaken(a)) =>
                             InSeq(PlacedBy(a), bombs')
       /\ Ending =>
             Placements(bombs', turn', pc') = Placements(bombs, turn, pc)]_vars

\* an agent's bomb has gone off by its timer in this update, LIFETIME turns
\* after it was placed, and the agent has placed a bomb again in the same turn
C31_Witness ==
    /\ pc = "acted"
    /\ turn >= LIFETIME
    /\ \E a \in AgentIds :
          /\ OwnedCount(exploding, a) > 0
          /\ OwnedWithTimer(bombs, a, LIFETIME) = 1
          /\ agents[a].bombs_left = 0

\* the ids of the agents get_winners() returns for ags
WinnerIds(ags) ==
    LET winners == get_winners(ags)
    IN  {winners[i].id : i \in 1 .. Len(winners)}

\* C32: propagate_explosions harms no agent.  It changes no agent's position,
\* disqualified flag, state or message, and does not stop the game; an agent
\* standing on a scorched cell that was among the winners before the pass is
\* among them after it, and such an agent wins whenever no qualified agent has
\* a higher score.
C32_ExplosionsHarmNoAgent ==
    [][Propagating =>
          /\ running' = running
          /\ \A a \in AgentIds :
                /\ agents'[a] = [agents[a] EXCEPT
                                    !.bombs_left = agents'[a].bombs_left,
                                    !.boxes_blown_up = agents'[a].boxes_blown_up]
                /\ (PositionOf(agents', a) \in explosions' /\ ~agents[a].disqualified) =>
                      /\ ~agents'[a].disqualified
                      /\ (\A b \in AgentIds :
                             agents'[b].disqualified
                             \/ agents'[b].boxes_blown_up <= agents'[a].boxes_blown_up)
                         => a \in WinnerIds(agents')]_vars

\* an agent stands in the blast of this turn, the game goes on and the agent is
\* a winner as things stand
C32_Witness ==
    /\ pc = "propagated"
    /\ running
    /\ \E a \in AgentIds :
          /\ PositionOf(agents, a) \in explosions
          /\ ~agents[a].disqualified
          /\ a \in WinnerIds(agents)

(* ---------------------------------------------------------------------- *)
(* C33: the same MOVE towards a cell that is not walkable, repeated         *)
(* ---------------------------------------------------------------------- *)
\* the cell agent a is sent to turn after turn
TargetOf(a) == <<parse_action(actions[a]).x, parse_action(actions[a]).y>>

\* the walkable cells next to cell c
WalkableNextTo(c) ==
    {n \in Cells : Adjacent(n, c) /\ walkable(bombs, grid, n[1], n[2])}

\* the target of agent a is not walkable, and the agent can walk to a walkable
\* cell next to it
BlockedTargetInReach(a) ==
    /\ ~walkable(bombs, grid, TargetOf(a)[1], TargetOf(a)[2])
    /\ \E n \in WalkableNextTo(TargetOf(a)) :
          Distances(bombs, grid, n)[PositionOf(agents, a)] < Unreachable

\* agent a stands on a walkable cell next to its target
NextToTarget(a) == PositionOf(agents, a) \in WalkableNextTo(TargetOf(a))

HeadedFor(a) ==
    Substitute(bombs, grid, PositionOf(agents, a), TargetOf(a))

\* agent a stands on the cell it heads for, or has no path to it
AtRest(a) ==
    /\ WalkableNextTo(TargetOf(a)) # {}
    /\ \/ PositionOf(agents, a) = HeadedFor(a)
       \/ Distances(bombs, grid, HeadedFor(a))[PositionOf(agents, a)] = Unreachable

\* agent a has no path to the neighbour of the target it heads for
Stuck(a) ==
    /\ WalkableNextTo(TargetOf(a)) # {}
    /\ Distances(bombs, grid, HeadedFor(a))[PositionOf(agents, a)] = Unreachable

C34_NoTwoBombsShareACell ==
    \A i, j \in 1 .. Len(bombs) : i # j => CellOf(bombs[i]) # CellOf(bombs[j])

\* both agents stood on one cell and answered BOMB, and the cell holds a bomb
C34_Witness ==
    /\ pc = "acted"
    /\ \A a \in AgentIds : actions[a] # None /\ IsBombAnswer(actions[a])
    /\ \A a \in AgentIds : \E i \in 1 .. Len(bombs) :
          bombs[i].timer = LIFETIME /\ CellOf(bombs[i]) = PositionOf(agents, a)
    /\ \A a, b \in AgentIds : PositionOf(agents, a) = PositionOf(agents, b)

\* C35: capacity is conserved.  After every update(), and between the phases
\* of update() as well, each agent's bombs_left plus the number of its bombs in
\* the bomb list is the starting capacity, so the list holds no more bombs
\* than there are agents; a bomb that leaves the list, by its timer or by a
\* chain reaction, gives its owner one bomb back.
C35_CapacityIsConserved ==
    /\ \A a \in AgentIds :
          agents[a].bombs_left + OwnedCount(bombs, a) = INITIAL_BOMBS
    /\ Len(bombs) <= NumAgents

\* a bomb went off in a chain reaction before its timer ran out, and its owner
\* has its bomb back
C35_Witness ==
    /\ pc = "propagated"
    /\ \E r \in rays :
          /\ r.from \notin BombCells(exploding)
          /\ agents[r.owner].bombs_left = INITIAL_BOMBS
          /\ OwnedCount(bombs, r.owner) = 0

\* C36: after every update() no cell of the explosion set is a box, and every
\* bomb of the list that stands on a cell of the explosion set was placed in
\* this turn, after the blast (its timer is LIFETIME); no bomb of an earlier
\* turn survives on a scorched cell.  The same holds from the end of the
\* propagation pass on.
C36_NothingOldOnScorchedCells ==
    pc # "ticked" =>
       /\ \A c \in explosions : grid[c] # BOX
       /\ \A i \in 1 .. Len(bombs) :
             CellOf(bombs[i]) \in explosions => bombs[i].timer = LIFETIME

\* an update has ended with a fresh bomb on a cell that the blast of this turn
\* scorched
C36_Witness ==
    /\ AfterUpdate
    /\ \E i \in 1 .. Len(bombs) :
          CellOf(bombs[i]) \in explosions /\ bombs[i].timer = LIFETIME

(* ---------------------------------------------------------------------- *)
(* C37: the order of the detonating bombs                                  *)
(* ---------------------------------------------------------------------- *)
\* the lists that hold the elements of list s in some order
Reorderings(s) ==
    {[i \in 1 .. Len(s) |-> s[f[i]]] : f \in Permutations(1 .. Len(s))}

\* what a propagation pass leaves behind: explosion set, grid, agents (scores
\* and bombs_left) and bomb list
Outcome(p) ==
    [explosions |-> p.explosions, grid |-> p.grid, agents |-> p.agents,
     bombs |-> p.bombs]

\* C37: the outcome of a propagation pass does not depend on the order of the
\* bombs that detonate in the tick: for every reordering of the list that
\* tick_bombs returned, propagate_explosions yields the same explosion set,
\* destroyed boxes, scores, bombs_left values and remaining bombs.
C37_SeedOrderDoesNotMatter ==
    pc = "ticked" =>
       \A seeds \in Reorderings(exploding) :
          Outcome(propagate_explosions(seeds, bombs, agents, grid))
             = Outcome(propagate_explosions(exploding, bombs, agents, grid))

\* two bombs of different owners went off in one tick, their blasts crossed
\* and both owners scored
C37_Witness ==
    /\ pc = "propagated"
    /\ Len(exploding) = 2
    /\ exploding[1].owner_id # exploding[2].owner_id
    /\ \E r, q \in rays : r.cell = q.cell /\ r.owner # q.owner
    /\ \A a \in AgentIds : agents[a].boxes_blown_up > 0

(* ---------------------------------------------------------------------- *)
(* C38..C39: one step per update, and agents served in the order of ids    *)
(* ---------------------------------------------------------------------- *)
\* C38: in one update() the position of an agent stays the same or changes to
\* one of the four neighbouring cells (only process_agent_actions changes it),
\* and after any sequence of updates every agent is inside the grid and not on
\* a box.
C38_OneStepOnTheFloor ==
    /\ [][\A a \in AgentIds :
              \/ PositionOf(agents', a) = PositionOf(agents, a)
              \/ Acting /\ Adjacent(PositionOf(agents', a), PositionOf(agents, a))]_vars
    /\ [](\A a \in AgentIds :
              InGrid(PositionOf(agents, a)) /\ grid[PositionOf(agents, a)] # BOX)

\* every agent has stepped to a neighbouring cell in this turn and has left
\* its corner
C38_Witness ==
    /\ pc = "acted"
    /\ \A a \in AgentIds :
          /\ agents[a].state = MOVING
          /\ Adjacent(PositionOf(agents, a), START_POSITIONS[a + 1])

\* agents lo < hi stand on one cell that holds no bomb, both have a bomb left,
\* neither is disqualified, and both answer BOMB in this turn
BothBombOneCell(lo, hi) ==
    /\ lo < hi
    /\ PositionOf(agents, lo) = PositionOf(agents, hi)
    /\ PositionOf(agents, lo) \notin BombCells(bombs)
    /\ agents[lo].bombs_left > 0 /\ agents[hi].bombs_left > 0
    /\ ~agents[lo].disqualified /\ ~agents[hi].disqualified
    /\ actions'[lo] \in BombAnswers /\ actions'[hi] \in BombAnswers

\* C39: the actions of a turn are applied one after the other in increasing
\* agent id, each seeing what the earlier ones did: when two agents with a
\* bomb left stand on one bomb-free cell and both answer BOMB, only the bomb
\* of the lower id is placed and only its bombs_left goes down; the agent with
\* the higher id keeps its bombs_left, is not disqualified and makes the move
\* that MOVE x y makes.
C39_LowerIdPlacesTheBomb ==
    [][Acting =>
          \A lo, hi \in AgentIds :
              BothBombOneCell(lo, hi) =>
                  /\ bombs' = bombs \o <<PlacedBy(lo)>>
                  /\ agents'[lo].bombs_left = agents[lo].bombs_left - 1
                  /\ agents'[hi].bombs_left = agents[hi].bombs_left
                  /\ ~agents'[hi].disqualified
                  /\ agents'[hi] =
                         AnsweredInstead(hi, as_move(actions'[hi])).agents[hi]]_vars

(* ---------------------------------------------------------------------- *)
(* C40: a repeated MOVE towards a walkable target                          *)
(* ---------------------------------------------------------------------- *)
\* the walking distance of cell c from the target of agent a
ToTarget(a, c) == Distances(bombs, grid, TargetOf(a))[c]

\* the target of agent a is walkable
WalkableTarget(a) == walkable(bombs, grid, TargetOf(a)[1], TargetOf(a)[2])

\* the updates agent a has answered: turn counts the finished ones
Answers(a) == IF pc = "acted" THEN turn + 1 ELSE turn

\* what is left of the walk of length d after n steps
LeftAfter(d, n) == IF n < d THEN d - n ELSE 0

\* C40: on a grid with no bombs, an agent that repeats MOVE towards the same
\* walkable target comes one step closer with every answer while it is away
\* from it, so that it stands on the target after exactly as many turns as
\* the walking distance it started at, and is idle there on every further
\* repetition; an agent whose walkable target is out of its reach never moves.
C40_RepeatedMoveWalksToTarget ==
    /\ [][Acting =>
              \A a \in AgentIds : WalkableTarget(a) =>
                  LET d == ToTarget(a, PositionOf(agents, a))
                  IN  /\ d \in 1 .. (Unreachable - 1) =>
                            /\ ToTarget(a, PositionOf(agents', a)) = d - 1
                            /\ agents'[a].state = MOVING
                      /\ d = 0 => Stayed(a)
                      /\ d = Unreachable => Stayed(a)]_vars
    /\ [](\A a \in AgentIds : WalkableTarget(a) =>
              LET d == ToTarget(a, START_POSITIONS[a + 1])
              IN  IF d = Unreachable
                  THEN PositionOf(agents, a) = START_POSITIONS[a + 1]
                  ELSE ToTarget(a, PositionOf(agents, a)) = LeftAfter(d, Answers(a)))

\* agent 0 has walked three cells or more to its target, stands on it and has
\* answered once more, which left it idle
C40_Witness ==
    /\ pc = "acted"
    /\ WalkableTarget(0)
    /\ ToTarget(0, START_POSITIONS[1]) \in 3 .. (Unreachable - 1)
    /\ PositionOf(agents, 0) = TargetOf(0)
    /\ agents[0].state = IDLE

=============================================================================
